---------------------------- MODULE Spec2Model ----------------------------
(***************************************************************************)
(* A state-machine model of blobfile/ops.py: the streaming writers (GCS   *)
(* resumable session, Azure append blob), the streaming reader, the token  *)
(* manager, the HTTP executor with its backoff schedule, the HTTP pool of  *)
(* each process, md5 and copy, and the directory operations (listdir,      *)
(* rmdir, rmtree) over the keys of a bucket.                               *)
(*                                                                         *)
(* Sizes are scaled: GOOGLE_CHUNK_SIZE (2^20) and AZURE_MAX_CHUNK_SIZE     *)
(* (4 * 2^20) are both taken as 2 bytes, which keeps every relation the    *)
(* code computes on them (//, >, slicing) and lets one stream hold more    *)
(* than two chunks.  Delays are counted in tenths of a second.             *)
(***************************************************************************)
EXTENDS Integers, Sequences, FiniteSets, TLC

VARIABLES
    cloud,      \* "gs" or "as": the scheme of the path the streams are opened on
    obj,        \* the remote object stored at the path
    sess,       \* GCS: bytes each resumable session has received
    lastFin,    \* GCS: the writer whose finalizing chunk was accepted last (0: none)
    ws,         \* the write streams (_StreamingWriteFile), one per writer
    faults,     \* number of events the environment has injected so far
    rd,         \* the read stream (_StreamingReadFile)
    tm,         \* the token manager (TokenManager)
    now,        \* time.time(), in seconds
    ex,         \* one call of _execute_request
    pool,       \* the processes and their HTTP pools (_http, _http_pid, _http_lock)
    fs,         \* the objects of the copy and md5 calls, and the calls themselves
    tree        \* the keys of a bucket and the directory operation in progress

vars == <<cloud, obj, sess, lastFin, ws, faults, rd, tm, now, ex, pool, fs, tree>>

---------------------------------------------------------------------------
(* Bounds of the model *)

MaxBytes == 5       \* bytes one writer hands to write() in total
MaxFaults == 2      \* events of the environment in one behaviour: failed
                    \* requests and reads, replacements of the object
MaxLen == 3         \* length of an object the reader is opened on
MaxBuf == 2         \* length of the buffer handed to readinto
MaxCalls == 3       \* readinto and seek calls on one read stream
MaxAttempts == 12   \* failed attempts of one request
MaxClock == 3       \* clock ticks of the token model
MaxLoads == 3       \* loader calls of the token model
TimeStep == 300     \* seconds of one clock tick
MaxProcs == 3       \* processes ever started (the first and those forked)
MaxPids == 2        \* process ids the system hands out
MaxData == 3        \* bytes of an object of the copy and md5 calls
MaxEvents == 2      \* overwrites and removals by other clients during one call
MaxRewrites == 2    \* rewrite requests of one copy
MaxCopies == 2      \* copy calls made one after the other
RewriteBudget == 2  \* bytes the server copies in answer to one rewrite request
MaxKeyLen == 4      \* characters of a key after the "d" it starts with
MaxKeys == 2        \* keys of the bucket rmdir and rmtree are called on
MaxLost == 1        \* lost answers to the DELETEs of one rmtree
MaxNameLen == 3     \* characters of a key after the "d/" of the directory listed
MaxListed == 2      \* keys of the bucket listdir is called on
MaxShard == 2       \* largest shard_prefix_length
MaxForks == 1       \* processes forked with a token manager in memory
MaxGets == 2        \* get_token calls of one process
MaxAsked == 4       \* get_token calls of the threads of one process
MaxWaited == 2      \* clock ticks while the threads call get_token
MaxCallers == 3     \* threads that call get_token
MaxFailing == 2     \* threads that call get_token while loaders fail
MaxTried == 3       \* get_token calls while loaders fail
MaxRetried == 4     \* attempts, failures and requests of a read that are told apart
MaxWorkers == 2     \* worker processes of the pool of a sharded listdir
MaxRevoked == 2     \* tokens the server stops accepting

(* Program constants *)

GOOGLE_CHUNK_SIZE == 2
AZURE_MAX_CHUNK_SIZE == 2
CHUNK_SIZE == 2
EARLY_EXPIRATION_SECONDS == 5 * 60
BackoffInitial == 1         \* 0.1 s
BackoffMaximum == 600       \* 60.0 s
BackoffMultiplier == 2
LogFromAttempt == 3

---------------------------------------------------------------------------
(* Helpers *)

Min(a, b) == IF a < b THEN a ELSE b
Max(a, b) == IF a > b THEN a ELSE b

\* b[lo:hi] of Python, 0-based, hi exclusive, clipped to the sequence
Slice(s, lo, hi) == SubSeq(s, lo + 1, Min(hi, Len(s)))

IsPrefix(s, t) == Len(s) <= Len(t) /\ SubSeq(t, 1, Len(s)) = s

Writers == {1, 2}
Other(w) == 3 - w

\* the j-th byte writer w hands to write(): all bytes are distinct, so a lost,
\* repeated, reordered or foreign byte shows in the stored content
Byte(w, j) == 10 * w + j
Bytes(w, from, n) == [k \in 1..n |-> Byte(w, from + k)]

\* hashlib.md5 as an injective digest of the bytes fed to it
MD5(data) == [digest |-> data]
NoMD5 == [digest |-> <<-1>>]

NoObj == [exists |-> FALSE, kind |-> "none", data |-> <<>>, md5 |-> NoMD5]

---------------------------------------------------------------------------
(* The write streams: _StreamingWriteFile and its two subclasses *)

NewWriter ==
    [st |-> "new", pc |-> "idle", offset |-> 0, buf |-> <<>>, chunk |-> <<>>,
     start |-> 0, fin |-> FALSE, md5 |-> <<>>,
     acc |-> <<>>, raised |-> FALSE, got412 |-> FALSE, nested |-> FALSE,
     app |-> <<>>]

chunk_size == IF cloud = "gs" THEN GOOGLE_CHUNK_SIZE ELSE AZURE_MAX_CHUNK_SIZE

\* _StreamingWriteFile.__init__
StreamInit(s, nest) ==
    [s EXCEPT !.st = "open", !.offset = 0, !.buf = <<>>, !.nested = nest]

\* _GoogleStreamingWriteFile.__init__: POST uploadType=resumable opens a session
GoogleOpen(w) ==
    /\ cloud = "gs"
    /\ ws[w].st = "new"
    /\ sess' = [sess EXCEPT ![w] = <<>>]
    /\ ws' = [ws EXCEPT ![w] = StreamInit(@, FALSE)]
    /\ UNCHANGED <<cloud, obj, lastFin, faults, rd, tm, now, ex, pool, fs, tree>>

\* _AzureStreamingWriteFile.__init__: PUT x-ms-blob-type AppendBlob; on 409
\* (a blob of another type exists) remove(path) and PUT again.  Either way
\* the path then holds an empty append blob.
AzureOpen(w) ==
    /\ cloud = "as"
    /\ ws[w].st = "new"
    /\ obj' = [exists |-> TRUE, kind |-> "append", data |-> <<>>, md5 |-> NoMD5]
    /\ ws' = [ws EXCEPT ![w] =
                StreamInit([@ EXCEPT !.md5 = <<>>],
                           /\ ws[Other(w)].st = "open"
                           /\ ws[Other(w)].pc = "idle"
                           /\ ws[Other(w)].offset > 0)]
    /\ UNCHANGED <<cloud, sess, lastFin, faults, rd, tm, now, ex, pool, fs, tree>>

\* UploadSize with the final chunk cut one byte short
UploadSizeShort(s, finalize) ==
    IF finalize THEN Max(Len(s.buf) - 1, 0)
    ELSE (Len(s.buf) \div chunk_size) * chunk_size

\* UploadSize that takes the whole buffer for every chunk
UploadSizeAll(s, finalize) == Len(s.buf)

\* the size _upload_buf takes off the buffer
UploadSize(s, finalize) ==
    IF finalize THEN Len(s.buf)
    ELSE (Len(s.buf) \div chunk_size) * chunk_size

\* upload_buf that empties the buffer, whatever it uploads of it
upload_buf_clear(s, finalize) ==
    [s EXCEPT !.chunk = Slice(s.buf, 0, UploadSize(s, finalize)),
              !.buf = <<>>,
              !.start = 0,
              !.fin = finalize,
              !.pc = "sending"]

\* _upload_buf up to the call of _upload_chunk: the chunk is cut off the
\* buffer before it is uploaded
upload_buf(s, finalize) ==
    [s EXCEPT !.chunk = Slice(s.buf, 0, UploadSize(s, finalize)),
              !.buf = Slice(s.buf, UploadSize(s, finalize), Len(s.buf)),
              !.start = 0,
              !.fin = finalize,
              !.pc = "sending"]

\* the loop condition of write
NeedsUpload(s) == Len(s.buf) > chunk_size

\* write(b): append to the buffer, then upload the whole chunks while the
\* buffer is longer than one chunk (one _upload_buf empties it below one chunk)
Write(w, n) ==
    /\ ws[w].st = "open"
    /\ ws[w].pc = "idle"
    /\ Len(ws[w].acc) + n <= MaxBytes
    /\ LET b == Bytes(w, Len(ws[w].acc), n)
           s == [ws[w] EXCEPT !.buf = @ \o b, !.acc = @ \o b]
       IN ws' = [ws EXCEPT ![w] = IF NeedsUpload(s) THEN upload_buf(s, FALSE) ELSE s]
    /\ UNCHANGED <<cloud, obj, sess, lastFin, faults, rd, tm, now, ex, pool, fs, tree>>

\* close(): flush what is left with the finalize flag
Close(w) ==
    /\ ws[w].st = "open"
    /\ ws[w].pc = "idle"
    /\ ws' = [ws EXCEPT ![w] = upload_buf(@, TRUE)]
    /\ UNCHANGED <<cloud, obj, sess, lastFin, faults, rd, tm, now, ex, pool, fs, tree>>

\* _upload_buf after _upload_chunk returned: the offset advances; then close
\* marks the stream closed, and write tests its loop condition again
UploadDone(s) ==
    LET t == [s EXCEPT !.offset = @ + Len(s.chunk),
                       !.chunk = <<>>,
                       !.pc = "idle",
                       !.st = IF s.fin THEN "closed" ELSE @]
    IN IF ~s.fin /\ NeedsUpload(t) THEN upload_buf(t, FALSE) ELSE t

\* _upload_chunk raised: the exception leaves write/close; the chunk is gone
\* from the buffer and the offset has not moved
UploadRaised(s) ==
    [s EXCEPT !.chunk = <<>>, !.pc = "idle", !.raised = TRUE]

\* the Content-Range of a GCS chunk: <<start, end, total>>, total -1 for "*",
\* start = end = -1 for "bytes */T"
ContentRange(s) ==
    LET start == s.offset
        end == s.offset + Len(s.chunk) - 1
        total == IF s.fin THEN s.offset + Len(s.chunk) ELSE -1
    IN IF Len(s.chunk) = 0 /\ s.fin THEN <<-1, -1, total>> ELSE <<start, end, total>>

\* the resumable session accepts a chunk that continues what it holds
SessionAccepts(w, cr) ==
    IF cr[1] = -1 THEN cr[3] = Len(sess[w]) ELSE cr[1] = Len(sess[w])

\* _GoogleStreamingWriteFile._upload_chunk, with the server's answer: 308 for
\* a chunk that continues the session, 200 when the final chunk completes the
\* object; any other answer fails the assert
GoogleUploadChunk(w) ==
    /\ cloud = "gs"
    /\ ws[w].pc = "sending"
    /\ LET s == ws[w]
           cr == ContentRange(s)
       IN IF SessionAccepts(w, cr)
          THEN /\ sess' = [sess EXCEPT ![w] = @ \o s.chunk]
               /\ obj' = IF s.fin
                         THEN [exists |-> TRUE, kind |-> "gcs",
                               data |-> sess[w] \o s.chunk,
                               md5 |-> MD5(sess[w] \o s.chunk)]
                         ELSE obj
               /\ lastFin' = IF s.fin THEN w ELSE lastFin
               /\ ws' = [ws EXCEPT ![w] = UploadDone(s)]
          ELSE /\ ws' = [ws EXCEPT ![w] = UploadRaised(s)]
               /\ UNCHANGED <<sess, obj, lastFin>>
    /\ UNCHANGED <<cloud, faults, rd, tm, now, ex, pool, fs, tree>>

\* the append-block precondition x-ms-blob-condition-appendpos
AppendPos(s) == s.offset + s.start

\* a running hash that starts anew with every block
RunningMD5OfBlock(s, data) == data

\* self._md5.update(data)
RunningMD5(s, data) == s.md5 \o data

\* the first request of one round of the loop of
\* _AzureStreamingWriteFile._upload_chunk: the running MD5 takes the block,
\* and the block is appended (201, or 412 when the blob is not as long as
\* appendpos).  An empty chunk sends nothing.
AzureUploadChunk(w) ==
    /\ cloud = "as"
    /\ ws[w].pc = "sending"
    /\ LET s == ws[w]
           data == Slice(s.chunk, s.start, s.start + AZURE_MAX_CHUNK_SIZE)
           appended == obj.exists /\ Len(obj.data) = AppendPos(s)
           t == [s EXCEPT !.md5 = RunningMD5(s, data),
                          !.pc = "props",
                          !.got412 = @ \/ ~appended,
                          !.app = IF appended THEN @ \o data ELSE @]
       IN IF Len(s.chunk) = 0
          THEN /\ ws' = [ws EXCEPT ![w] = UploadDone(s)]
               /\ obj' = obj
          ELSE /\ obj' = [obj EXCEPT !.data = IF appended THEN @ \o data ELSE @]
               /\ ws' = [ws EXCEPT ![w] = t,
                         ![Other(w)] =
                           IF @.st = "open" THEN [@ EXCEPT !.nested = FALSE] ELSE @]
    /\ UNCHANGED <<cloud, sess, lastFin, faults, rd, tm, now, ex, pool, fs, tree>>

\* the second request of the round: the running MD5 is stored on the blob
\* with comp=properties; then the next block, and after the last one
\* _upload_buf advances the offset
AzureSetProperties(w) ==
    /\ cloud = "as"
    /\ ws[w].pc = "props"
    /\ LET s == ws[w]
           t == [s EXCEPT !.start = @ + AZURE_MAX_CHUNK_SIZE, !.pc = "sending"]
       IN /\ obj' = [obj EXCEPT !.md5 = MD5(s.md5)]
          /\ ws' = [ws EXCEPT ![w] =
                      IF t.start < Len(s.chunk) THEN t ELSE UploadDone(t)]
    /\ UNCHANGED <<cloud, sess, lastFin, faults, rd, tm, now, ex, pool, fs, tree>>

\* a chunk upload that fails: the request is answered by a status the code
\* asserts against, and the AssertionError leaves write/close
UploadChunkRaise(w) ==
    /\ ws[w].pc \in {"sending", "props"}
    /\ ~(cloud = "as" /\ Len(ws[w].chunk) = 0)
    /\ faults < MaxFaults
    /\ faults' = faults + 1
    /\ ws' = [ws EXCEPT ![w] = UploadRaised(@)]
    /\ UNCHANGED <<cloud, obj, sess, lastFin, rd, tm, now, ex, pool, fs, tree>>

---------------------------------------------------------------------------
(* The read stream: _StreamingReadFile *)

\* the content of version v of the object the reader is opened on: the byte at
\* position k (0-based) of version v is 100 * v + k + 1
ObjData(v, len) == [k \in 1..len |-> 100 * v + k]

NoBody == [open |-> FALSE, live |-> FALSE, pos |-> 0, data |-> <<>>]

NewReader ==
    [st |-> "new", size |-> 0, offset |-> 0, f |-> NoBody,
     requests |-> 0, failures |-> 0, bytes_read |-> 0,
     pc |-> "idle", attempt |-> 0, blen |-> 0,
     out |-> <<>>, ret |-> -1, calls |-> 0, lastexc |-> FALSE,
     lo |-> 0, hi |-> 0, repl |-> 0, dropAt |-> -1, sought |-> FALSE,
     gets |-> 0, gets416 |-> 0, fails |-> 0]

\* history: the offset at which the stream was first without a body after the
\* object had been replaced; gets and gets416 count the ranged GETs answered
\* 206 and 416, fails the attempts of readinto that failed
DropNote(r) ==
    IF r.dropAt = -1 /\ r.repl > 0 /\ ~r.f.open
    THEN [r EXCEPT !.dropAt = r.offset] ELSE r

\* _GoogleStreamingReadFile.__init__ / _AzureStreamingReadFile.__init__:
\* the size is the object's size when the stream is opened
ReadOpen ==
    /\ rd.st = "new"
    /\ obj.exists
    /\ rd' = [NewReader EXCEPT !.st = "open", !.size = Len(obj.data),
                               !.hi = Len(obj.data)]
    /\ UNCHANGED <<cloud, obj, sess, lastFin, ws, faults, tm, now, ex, pool, fs, tree>>

\* _get_file: a ranged GET "bytes=offset-"; 416 when the range starts at or
\* after the end of the object
RangeError(offset) == offset >= Len(obj.data)

\* the body _get_file returns: the response of the ranged GET, which streams
\* the object as it is now, or an empty io.BytesIO with the _RangeError
get_file(offset) ==
    IF RangeError(offset)
    THEN [open |-> TRUE, live |-> FALSE, pos |-> offset, data |-> <<>>]
    ELSE [open |-> TRUE, live |-> TRUE, pos |-> offset, data |-> obj.data]

\* bytes the body can still deliver
Avail(f) == IF f.live THEN Len(f.data) - f.pos ELSE 0

\* readinto, entry: EOF when the offset is the size, else the retry loop starts
Readinto(n) ==
    /\ rd.st = "open"
    /\ rd.pc = "idle"
    /\ rd.calls < MaxCalls
    /\ rd' = IF rd.size = rd.offset
             THEN [rd EXCEPT !.ret = 0, !.calls = @ + 1, !.lastexc = FALSE]
             ELSE [rd EXCEPT !.pc = "loop", !.attempt = 0, !.blen = n,
                             !.calls = @ + 1, !.lastexc = FALSE]
    /\ UNCHANGED <<cloud, obj, sess, lastFin, ws, faults, tm, now, ex, pool, fs, tree>>

\* WithBody that reopens without the Range header, at the start of the object
WithBodyAtStart(r) ==
    IF r.f.open THEN r
    ELSE [r EXCEPT !.f = [get_file(0) EXCEPT !.pos = 0], !.requests = @ + 1,
                   !.gets = @ + 1]

\* the stream with a body: the open one, or a new ranged GET at the offset,
\* which counts as a request
WithBody(r) ==
    IF r.f.open THEN r
    ELSE [r EXCEPT !.f = get_file(r.offset), !.requests = @ + 1, !.gets = @ + 1]

\* Advance that moves the offset by the length of the buffer
AdvanceByBuffer(r, n) ==
    [r EXCEPT !.out = @ \o SubSeq(r.f.data, r.f.pos + 1, r.f.pos + n),
              !.f.pos = @ + n,
              !.offset = @ + r.blen,
              !.bytes_read = @ + n,
              !.ret = n,
              !.pc = "idle",
              !.attempt = 0,
              !.blen = 0,
              !.lastexc = FALSE]

\* Advance that leaves bytes_read as it is
AdvanceUncounted(r, n) ==
    [r EXCEPT !.out = @ \o SubSeq(r.f.data, r.f.pos + 1, r.f.pos + n),
              !.f.pos = @ + n,
              !.offset = @ + n,
              !.ret = n,
              !.pc = "idle",
              !.attempt = 0,
              !.blen = 0,
              !.lastexc = FALSE]

\* readinto, after the loop: n bytes were read
Advance(r, n) ==
    [r EXCEPT !.out = @ \o SubSeq(r.f.data, r.f.pos + 1, r.f.pos + n),
              !.f.pos = @ + n,
              !.offset = @ + n,
              !.bytes_read = @ + n,
              !.ret = n,
              !.pc = "idle",
              !.attempt = 0,
              !.blen = 0,
              !.lastexc = FALSE]

\* readinto, a failed attempt: count it and sleep
FailedAttempt(r) ==
    [r EXCEPT !.failures = @ + 1, !.attempt = @ + 1, !.fails = @ + 1]

\* readinto, one attempt of the loop without a fault.  A range that starts
\* before 0 is no valid Range header: the answer is not 206 and the assert of
\* _get_file raises.
ReadAttempt ==
    /\ rd.pc = "loop"
    /\ IF ~rd.f.open /\ rd.offset < 0
       THEN rd' = [rd EXCEPT !.pc = "idle", !.ret = -2, !.attempt = 0, !.blen = 0,
                             !.lastexc = FALSE]
       ELSE IF ~rd.f.open /\ RangeError(rd.offset)
       THEN rd' = [rd EXCEPT !.f = get_file(rd.offset), !.pc = "idle", !.ret = 0,
                             !.attempt = 0, !.blen = 0, !.lastexc = FALSE,
                             !.gets416 = @ + 1]
       ELSE LET r == WithBody(rd)
            IN IF Avail(r.f) = 0
               THEN rd' = DropNote(FailedAttempt([r EXCEPT !.f = NoBody,
                                                           !.lastexc = FALSE]))
               ELSE \E n \in 1..Min(r.blen, Avail(r.f)) : rd' = Advance(r, n)
    /\ UNCHANGED <<cloud, obj, sess, lastFin, ws, faults, tm, now, ex, pool, fs, tree>>

\* readinto, an attempt in which the body returns no data although the object
\* has more: the connection has died; the body is closed and dropped
ReadNoData ==
    /\ rd.pc = "loop"
    /\ faults < MaxFaults
    /\ ~(~rd.f.open /\ (rd.offset < 0 \/ RangeError(rd.offset)))
    /\ faults' = faults + 1
    /\ rd' = DropNote(FailedAttempt([WithBody(rd) EXCEPT !.f = NoBody,
                                                         !.lastexc = FALSE]))
    /\ UNCHANGED <<cloud, obj, sess, lastFin, ws, tm, now, ex, pool, fs, tree>>

\* readinto, an attempt in which the body raises ReadTimeoutError or
\* ProtocolError: the except clause records the error and keeps self._f.  The
\* failed response has lost d bytes and delivers nothing any more (urllib3
\* closes a response whose read failed).
ReadRaises(d) ==
    /\ rd.pc = "loop"
    /\ faults < MaxFaults
    /\ ~(~rd.f.open /\ (rd.offset < 0 \/ RangeError(rd.offset)))
    /\ d <= Avail(WithBody(rd).f)
    /\ faults' = faults + 1
    /\ rd' = FailedAttempt([WithBody(rd) EXCEPT !.f.live = FALSE,
                                                !.f.pos = @ + d,
                                                !.lastexc = TRUE])
    /\ UNCHANGED <<cloud, obj, sess, lastFin, ws, tm, now, ex, pool, fs, tree>>

\* new_offset that takes every whence for SEEK_SET
SeekTargetFromStart(r, offset, whence) == offset

\* new_offset of seek
SeekTarget(r, offset, whence) ==
    CASE whence = 0 -> offset
      [] whence = 1 -> r.offset + offset
      [] whence = 2 -> r.size + offset

\* seek(offset, whence): the target is stored as it is, and the body is
\* dropped when the offset changes
Seek(offset, whence) ==
    /\ rd.st = "open"
    /\ rd.pc = "idle"
    /\ rd.calls < MaxCalls
    /\ LET new_offset == SeekTarget(rd, offset, whence)
           r == [rd EXCEPT !.calls = @ + 1,
                           !.lo = Min(@, new_offset),
                           !.hi = Max(@, new_offset)]
       IN rd' = IF new_offset # rd.offset
                THEN DropNote([r EXCEPT !.offset = new_offset, !.f = NoBody,
                                        !.sought = TRUE])
                ELSE r
    /\ UNCHANGED <<cloud, obj, sess, lastFin, ws, faults, tm, now, ex, pool, fs, tree>>

\* another client replaces the object while the stream is open
Replace(len) ==
    /\ rd.st = "open"
    /\ faults < MaxFaults
    /\ faults' = faults + 1
    /\ obj' = [obj EXCEPT !.data = ObjData(rd.repl + 1, len),
                          !.md5 = MD5(ObjData(rd.repl + 1, len))]
    /\ rd' = DropNote([rd EXCEPT !.repl = @ + 1, !.hi = Max(@, len)])
    /\ UNCHANGED <<cloud, sess, lastFin, ws, tm, now, ex, pool, fs, tree>>

---------------------------------------------------------------------------
(* The token manager: TokenManager, one instance serving several keys *)

Keys == {"a", "b"}

\* lifetimes the loader reports (expires_in)
Lifetimes == {2 * TimeStep, 4 * TimeStep}

\* TokenManager.__init__; tokens[k] = 0 when k is not in self._tokens,
\* expiration = -1 for None.  tokExp and last are history: the expiration the
\* loader reported with the token cached for each key, and the last call.
NewTokenManager ==
    [tokens |-> [k \in Keys |-> 0], expiration |-> -1, loads |-> 0,
     tokExp |-> [k \in Keys |-> -1],
     last |-> [key |-> "", cached |-> FALSE, token |-> 0, exp |-> -1, at |-> 0]]

\* the test of get_token that clears the slot of the key
Stale == tm.expiration = -1 \/ (now + EARLY_EXPIRATION_SECONDS) > tm.expiration

\* self._tokens after the first if of get_token
AfterClear(key) ==
    IF Stale THEN [tm.tokens EXCEPT ![key] = 0] ELSE tm.tokens

\* get_token(key) that finds the key in self._tokens and returns it
GetTokenCached(key) ==
    /\ AfterClear(key)[key] # 0
    /\ tm' = [tm EXCEPT !.last = [key |-> key, cached |-> TRUE,
                                  token |-> tm.tokens[key],
                                  exp |-> tm.tokExp[key], at |-> now]]
    /\ UNCHANGED <<cloud, obj, sess, lastFin, ws, faults, rd, now, ex, pool, fs, tree>>

\* get_token(key) that calls the loader, which reports a token and its
\* expiration; both are stored, the expiration in the one field of the manager
GetTokenLoad(key, life) ==
    /\ AfterClear(key)[key] = 0
    /\ tm.loads < MaxLoads
    /\ tm' = [tm EXCEPT !.tokens = [AfterClear(key) EXCEPT ![key] = tm.loads + 1],
                        !.expiration = now + life,
                        !.loads = @ + 1,
                        !.tokExp[key] = now + life,
                        !.last = [key |-> key, cached |-> FALSE,
                                  token |-> tm.loads + 1,
                                  exp |-> now + life, at |-> now]]
    /\ UNCHANGED <<cloud, obj, sess, lastFin, ws, faults, rd, now, ex, pool, fs, tree>>

\* time passes
Tick ==
    /\ now < MaxClock * TimeStep
    /\ now' = now + TimeStep
    /\ UNCHANGED <<cloud, obj, sess, lastFin, ws, faults, rd, tm, ex, pool, fs, tree>>

---------------------------------------------------------------------------
(* The HTTP executor: _execute_request and _exponential_sleep_generator *)

RetryStatuses == {429, 500, 502, 503, 504}
OtherStatuses == {200, 206, 308, 404, 412, 416}
IOErrors == {"ConnectTimeoutError", "ReadTimeoutError", "ProtocolError"}

\* the generator without the maximum
NextBackoffUncapped(value) == value * BackoffMultiplier

\* _exponential_sleep_generator: the value after the one just yielded
NextBackoff(value) ==
    IF value * BackoffMultiplier > BackoffMaximum
    THEN BackoffMaximum
    ELSE value * BackoffMultiplier

\* a call of _execute_request at the first iteration of its loop.  built
\* counts the calls of build_req, slept holds the delays slept, logged the
\* attempts reported to _log_callback, open the responses received and
\* neither returned nor read.
NewExec ==
    [pc |-> "run", attempt |-> 0, backoff |-> BackoffInitial, built |-> 0,
     slept |-> <<>>, logged |-> {}, status |-> 0, err |-> "none", open |-> 0]

ExecCall ==
    /\ ex.pc = "idle"
    /\ ex' = NewExec
    /\ UNCHANGED <<cloud, obj, sess, lastFin, ws, faults, rd, tm, now, pool, fs, tree>>

\* the end of a failed iteration: log from the 4th attempt on, sleep the
\* delay, and take the next attempt number and delay
SleepAndRetry(e) ==
    [e EXCEPT !.logged = IF e.attempt >= LogFromAttempt THEN @ \cup {e.attempt} ELSE @,
              !.slept = Append(@, e.backoff),
              !.attempt = @ + 1,
              !.backoff = NextBackoff(@)]

\* an iteration whose response has a status that is not retried: returned
ExecReturn(status) ==
    /\ ex.pc = "run"
    /\ ex' = [ex EXCEPT !.built = @ + 1, !.status = status, !.err = "none",
                        !.pc = "returned"]
    /\ UNCHANGED <<cloud, obj, sess, lastFin, ws, faults, rd, tm, now, pool, fs, tree>>

\* an iteration whose response has a retried status: the response is left as
\* it is, and the loop goes on
ExecRetryStatus(status) ==
    /\ ex.pc = "run"
    /\ ex.attempt < MaxAttempts
    /\ ex' = SleepAndRetry([ex EXCEPT !.built = @ + 1, !.status = status,
                                      !.err = "status", !.open = @ + 1])
    /\ UNCHANGED <<cloud, obj, sess, lastFin, ws, faults, rd, tm, now, pool, fs, tree>>

\* an iteration in which the request raises one of the three caught errors
ExecIOError(e) ==
    /\ ex.pc = "run"
    /\ ex.attempt < MaxAttempts
    /\ ex' = SleepAndRetry([ex EXCEPT !.built = @ + 1, !.status = 0, !.err = e])
    /\ UNCHANGED <<cloud, obj, sess, lastFin, ws, faults, rd, tm, now, pool, fs, tree>>

\* an iteration in which the request raises an error the except clause does
\* not name: it leaves _execute_request
ExecOtherError ==
    /\ ex.pc = "run"
    /\ ex' = [ex EXCEPT !.built = @ + 1, !.status = 0, !.err = "other",
                        !.pc = "raised"]
    /\ UNCHANGED <<cloud, obj, sess, lastFin, ws, faults, rd, tm, now, pool, fs, tree>>

---------------------------------------------------------------------------
(* Specification of the write streams: two writers on one path *)

IdleTokens == [tokens |-> <<>>]
IdleExec == [pc |-> "idle"]
IdlePool == <<>>
IdleStore == <<>>
IdleTree == <<>>

\* what the path holds before any writer opens it: nothing, or an object
\* written earlier (on Azure a block blob, which the open replaces)
InitObjects ==
    {NoObj, [exists |-> TRUE, kind |-> "block", data |-> <<7>>, md5 |-> MD5(<<7>>)]}

InitWrite ==
    /\ cloud \in {"gs", "as"}
    /\ obj \in InitObjects
    /\ sess = [w \in Writers |-> <<>>]
    /\ lastFin = 0
    /\ ws = [w \in Writers |-> NewWriter]
    /\ faults = 0
    /\ rd = NewReader
    /\ tm = IdleTokens
    /\ now = 0
    /\ ex = IdleExec
    /\ tree = IdleTree
    /\ fs = IdleStore
    /\ pool = IdlePool

NextWrite ==
    \E w \in Writers :
        \/ GoogleOpen(w)
        \/ AzureOpen(w)
        \/ \E n \in 1..MaxBytes : Write(w, n)
        \/ Close(w)
        \/ GoogleUploadChunk(w)
        \/ AzureUploadChunk(w)
        \/ AzureSetProperties(w)
        \/ UploadChunkRaise(w)

SpecWrite == InitWrite /\ [][NextWrite]_vars

---------------------------------------------------------------------------
(* Specification of the read stream: one reader, and a client that replaces *)
(* the object under it                                                      *)

InitRead ==
    /\ cloud = "gs"
    /\ \E len \in 0..MaxLen :
         obj = [exists |-> TRUE, kind |-> "gcs", data |-> ObjData(0, len),
                md5 |-> MD5(ObjData(0, len))]
    /\ sess = [w \in Writers |-> <<>>]
    /\ lastFin = 0
    /\ ws = [w \in Writers |-> NewWriter]
    /\ faults = 0
    /\ rd = NewReader
    /\ tm = IdleTokens
    /\ now = 0
    /\ ex = IdleExec
    /\ tree = IdleTree
    /\ fs = IdleStore
    /\ pool = IdlePool

NextRead ==
    \/ ReadOpen
    \/ \E n \in 1..MaxBuf : Readinto(n)
    \/ ReadAttempt
    \/ ReadNoData
    \/ \E d \in 0..MaxBuf : ReadRaises(d)
    \/ \E offset \in -1..1, whence \in 0..2 : Seek(offset, whence)
    \/ \E len \in 0..MaxLen : Replace(len)

SpecRead == InitRead /\ [][NextRead]_vars

---------------------------------------------------------------------------
(* Claims about the write streams, checked under SpecWrite *)

\* C2: on every write stream offset + len(pending_buffer) equals the number
\* of bytes write() has accepted.  The claim asserts it in every state; it is
\* stated here for the states in which no chunk upload is in flight, i.e.
\* after each write or close has returned or raised.
C2_OffsetPlusBufferIsAccepted ==
    \A w \in Writers :
        ws[w].pc = "idle" => ws[w].offset + Len(ws[w].buf) = Len(ws[w].acc)

\* the inner writer i was opened on the Azure path while the outer writer had
\* uploaded at least one chunk, has written and closed without an error, and
\* the outer writer appended nothing in between
NestedClosed(i) ==
    /\ cloud = "as"
    /\ ws[i].nested
    /\ ws[i].st = "closed"
    /\ ~ws[i].raised
    /\ Len(ws[i].acc) > 0

\* C3: Azure concurrent-writer detection: after the inner writer has closed,
\* the outer writer's next append is answered 412 and raises
\* ConcurrentWriteFailure, so the call that made it does not return normally
\* and the outer stream is not closed; the blob holds the inner writer's bytes.
C3_ConcurrentWriteDetected ==
    \A o \in Writers :
        (NestedClosed(Other(o)) /\ ws[o].got412 /\ ws[o].pc = "idle")
            => /\ ws[o].raised
               /\ ws[o].st = "open"
               /\ obj.data = ws[Other(o)].acc

\* C4: GCS last-finalizer-wins: when both writers have closed successfully,
\* whatever the interleaving of their chunk uploads, the object holds exactly
\* the bytes of the writer whose finalizing chunk was accepted last.
C4_LastFinalizerWins ==
    (cloud = "gs" /\ \A w \in Writers : ws[w].st = "closed" /\ ~ws[w].raised)
        => /\ lastFin \in Writers
           /\ obj.exists
           /\ obj.data = ws[lastFin].acc

\* C4, witness: both writers wrote more than one chunk and closed, and the
\* writer that finalized last is the one that was opened on a longer content
C4_Witness ==
    /\ cloud = "gs"
    /\ \A w \in Writers : ws[w].st = "closed" /\ ~ws[w].raised
    /\ Len(ws[1].acc) = MaxBytes
    /\ Len(ws[2].acc) = 2 * GOOGLE_CHUNK_SIZE - 1
    /\ lastFin = 2

---------------------------------------------------------------------------
(* Claims about the read stream, checked under SpecRead *)

\* the object was replaced once by a shorter one, the stream lost its body
\* after k < L' bytes had been read, and no seek moved the offset
Truncated ==
    /\ rd.st = "open"
    /\ rd.repl = 1
    /\ Len(obj.data) < rd.size
    /\ rd.dropAt >= 0
    /\ rd.dropAt < Len(obj.data)
    /\ ~rd.sought

\* C5: truncation as EOF: once the object of length L was replaced by one of
\* length L' < L and the body was dropped after k < L' bytes, the reads return
\* the new object's bytes [k, L') after the k old ones, and return 0 only at
\* L'; the 416 never raises out of readinto.
C5_TruncationIsEOF ==
    Truncated =>
        /\ rd.ret # -2
        /\ rd.offset <= Len(obj.data)
        /\ rd.out = SubSeq(ObjData(0, rd.size), 1, rd.dropAt)
                     \o SubSeq(obj.data, rd.dropAt + 1, rd.offset)
        /\ (rd.pc = "idle" /\ rd.ret = 0) => rd.offset = Len(obj.data)

\* C5, witness: a 3-byte object replaced by a 2-byte one after 1 byte was
\* read; the reads have returned the second byte of the new object and EOF
C5_Witness ==
    /\ Truncated
    /\ rd.size = 3
    /\ Len(obj.data) = 2
    /\ rd.dropAt = 1
    /\ rd.out = <<1, 102>>
    /\ rd.pc = "idle"
    /\ rd.ret = 0

C7_BodyAtOffsetOrDiscarded ==
    rd.st = "open" =>
        /\ rd.f.open => rd.f.pos = rd.offset
        /\ rd.lastexc => ~rd.f.open

---------------------------------------------------------------------------
(* Specification of the round trip: one writer, no failed upload, and a    *)
(* reader opened after the writer has closed                               *)

\* the reader is opened once the writer has closed
ReadOpenAfterClose ==
    /\ ws[1].st = "closed"
    /\ ReadOpen

NextRoundTrip ==
    \/ GoogleOpen(1)
    \/ AzureOpen(1)
    \/ \E n \in 1..MaxBytes : Write(1, n)
    \/ Close(1)
    \/ GoogleUploadChunk(1)
    \/ AzureUploadChunk(1)
    \/ AzureSetProperties(1)
    \/ ReadOpenAfterClose
    \/ \E n \in 1..MaxBytes : Readinto(n)
    \/ ReadAttempt
    \/ ReadNoData
    \/ \E d \in 0..MaxBuf : ReadRaises(d)

SpecRoundTrip == InitWrite /\ [][NextRoundTrip]_vars

\* C1: round trip: after a writer was opened on the path, written and closed
\* with no other writer and no failed upload, the object stored is exactly the
\* bytes handed to write, and a reader opened afterwards returns exactly them:
\* what it has returned is always a prefix, and it returns 0 at their end.
C1_RoundTrip ==
    (ws[1].st = "closed" /\ ~ws[1].raised) =>
        /\ obj.exists
        /\ obj.data = ws[1].acc
        /\ rd.st = "open" =>
              /\ rd.size = Len(ws[1].acc)
              /\ IsPrefix(rd.out, ws[1].acc)
              /\ rd.offset = Len(rd.out)
              /\ rd.ret # -2
              /\ (rd.pc = "idle" /\ rd.ret = 0) => rd.out = ws[1].acc

\* C1, witness: more than two chunks were written, and the reader has
\* returned them all, over a failed read, and then EOF
C1_Witness ==
    /\ ws[1].st = "closed"
    /\ Len(ws[1].acc) = 2 * chunk_size + 1
    /\ rd.st = "open"
    /\ rd.out = ws[1].acc
    /\ rd.failures > 0
    /\ rd.pc = "idle"
    /\ rd.ret = 0

\* md5(path) on the object of the path: the md5Hash of the GCS object; on
\* Azure the Content-MD5 of the blob when it has one, and otherwise the MD5 of
\* the bytes read from it
ObjMd5 ==
    IF cloud = "as" /\ obj.md5 = NoMD5 THEN MD5(obj.data) ELSE obj.md5

\* the writer was closed and none of its uploads failed
ClosedClean == ws[1].st = "closed" /\ ~ws[1].raised

\* the blob of the path carries a Content-MD5
HasContentMD5 == cloud = "as" /\ obj.exists /\ obj.md5 # NoMD5

---------------------------------------------------------------------------
(* Specification of the token manager *)

InitToken ==
    /\ cloud = "as"
    /\ obj = NoObj
    /\ sess = [w \in Writers |-> <<>>]
    /\ lastFin = 0
    /\ ws = [w \in Writers |-> NewWriter]
    /\ faults = 0
    /\ rd = NewReader
    /\ tm = NewTokenManager
    /\ now = 0
    /\ ex = IdleExec
    /\ tree = IdleTree
    /\ fs = IdleStore
    /\ pool = IdlePool

NextToken ==
    \/ \E key \in Keys : GetTokenCached(key)
    \/ \E key \in Keys, life \in Lifetimes : GetTokenLoad(key, life)
    \/ Tick

SpecToken == InitToken /\ [][NextToken]_vars

\* C8: token freshness: get(key) returns a cached token only while
\* now + 300 s is before the expiration the loader reported for that key's
\* token record, for each key of a manager that serves several keys.  Stated
\* with <=, which grants the claim the instant now + 300 = expiration.
C8_CachedTokenIsFresh ==
    tm.last.cached => tm.last.at + EARLY_EXPIRATION_SECONDS <= tm.last.exp

---------------------------------------------------------------------------
(* Specification of the HTTP executor *)

InitHttp ==
    /\ cloud = "gs"
    /\ obj = NoObj
    /\ sess = [w \in Writers |-> <<>>]
    /\ lastFin = 0
    /\ ws = [w \in Writers |-> NewWriter]
    /\ faults = 0
    /\ rd = NewReader
    /\ tm = IdleTokens
    /\ now = 0
    /\ ex = IdleExec
    /\ tree = IdleTree
    /\ fs = IdleStore
    /\ pool = IdlePool

NextHttp ==
    \/ ExecCall
    \/ \E status \in OtherStatuses : ExecReturn(status)
    \/ \E status \in RetryStatuses : ExecRetryStatus(status)
    \/ \E e \in IOErrors : ExecIOError(e)
    \/ ExecOtherError

SpecHttp == InitHttp /\ [][NextHttp]_vars

\* the delay slept after the i-th failed attempt, i = 0, 1, 2, ..., in tenths
\* of a second: min(0.1 * 2^i, 60) s
ScheduledDelay(i) == Min(2 ^ i, 600)

\* C9: the executor neither returns nor raises on a transient failure (one of
\* the three I/O errors or a status in {429, 500, 502, 503, 504}) but goes on
\* to another attempt, having drained the failed response and slept; it calls
\* the request factory once per attempt, and what it returns is a response
\* with a status that is not retried.
C9_TransientFailuresAreRetried ==
    ex.pc # "idle" =>
        /\ (ex.err \in IOErrors \cup {"status"}) => ex.pc = "run"
        /\ ex.built = ex.attempt + (IF ex.pc = "run" THEN 0 ELSE 1)
        /\ ex.pc = "returned" => ex.status \in OtherStatuses
        /\ ex.open = 0

\* C10: backoff schedule: the delay slept after the i-th failed attempt is
\* min(0.1 * 2^i, 60) s, one delay per failed attempt and a next one always
\* at hand; failures are reported to the log sink exactly from the 4th
\* attempt on.
C10_BackoffSchedule ==
    ex.pc # "idle" =>
        /\ Len(ex.slept) = ex.attempt
        /\ \A i \in 1..Len(ex.slept) : ex.slept[i] = ScheduledDelay(i - 1)
        /\ ex.backoff = ScheduledDelay(ex.attempt)
        /\ ex.logged = {a \in 0..(ex.attempt - 1) : a >= 3}

\* C10, witness: twelve attempts have failed; the delays reached the maximum
\* after 51.2 s, and the attempts from the 4th on were reported
C10_Witness ==
    /\ ex.pc = "run"
    /\ ex.attempt = 12
    /\ ex.slept[10] = 512
    /\ ex.slept[11] = 600
    /\ ex.slept[12] = 600
    /\ ex.logged = 3..11

---------------------------------------------------------------------------
(* The HTTP pool: _http, _http_pid, _http_lock and _get_http_pool, in the   *)
(* processes started by fork                                                *)

Procs == 1..MaxProcs
Pids == 1..MaxPids
Threads == {1, 2}

\* the k-th pool constructed by process p, and the process that constructed a pool
PoolId(p, k) == 10 * p + k
PoolOwner(id) == id \div 10

\* the module globals of a process that has just imported ops: _http = None
\* and _http_pid = None are 0, the lock is free (0; a thread number when
\* that thread holds it).  made counts the pools the process constructed and
\* ret holds what the last call of each thread returned.
NewProcess(st, pid) ==
    [st |-> st, pid |-> pid, http |-> 0, http_pid |-> 0, lock |-> 0,
     made |-> 0, ret |-> [t \in Threads |-> 0]]

\* pids of the processes running
LivePids == {pool[p].pid : p \in {q \in Procs : pool[q].st = "run"}}

\* _get_http_pool, thread t of process p: with _http_lock
PoolAcquire(p, t) ==
    /\ pool[p].st = "run"
    /\ pool[p].lock = 0
    /\ pool' = [pool EXCEPT ![p].lock = t]
    /\ UNCHANGED <<cloud, obj, sess, lastFin, ws, faults, rd, tm, now, ex, fs, tree>>

\* the test of _get_http_pool that constructs a pool
NeedsPool(g) == g.http = 0 \/ g.http_pid # g.pid

\* _get_http_pool under the lock: construct the pool when there is none or it
\* was made under another pid, return _http and release the lock
PoolGet(p, t) ==
    /\ pool[p].st = "run"
    /\ pool[p].lock = t
    /\ LET g == pool[p]
           h == IF NeedsPool(g)
                THEN [g EXCEPT !.http = PoolId(p, g.made + 1),
                               !.http_pid = g.pid,
                               !.made = @ + 1]
                ELSE g
       IN pool' = [pool EXCEPT ![p] = [h EXCEPT !.ret[t] = h.http, !.lock = 0]]
    /\ UNCHANGED <<cloud, obj, sess, lastFin, ws, faults, rd, tm, now, ex, fs, tree>>

\* os.fork() by thread t of process p, which is not inside _get_http_pool:
\* the child c gets a pid no running process has and a copy of the parent's
\* memory, the globals and the state of the lock included; the thread that
\* holds the lock in the parent does not exist in the child (-1)
Fork(p, t, c, pid) ==
    /\ pool[p].st = "run"
    /\ pool[p].lock # t
    /\ pool[c].st = "new"
    /\ \A q \in Procs : q < c => pool[q].st # "new"
    /\ pid \notin LivePids
    /\ pool' = [pool EXCEPT ![c] = [pool[p] EXCEPT
                    !.pid = pid,
                    !.lock = IF pool[p].lock = 0 THEN 0 ELSE -1,
                    !.made = 0,
                    !.ret = [u \in Threads |-> 0]]]
    /\ UNCHANGED <<cloud, obj, sess, lastFin, ws, faults, rd, tm, now, ex, fs, tree>>

\* the process ends; its pid is free again
Exit(p) ==
    /\ pool[p].st = "run"
    /\ pool' = [pool EXCEPT ![p].st = "exited"]
    /\ UNCHANGED <<cloud, obj, sess, lastFin, ws, faults, rd, tm, now, ex, fs, tree>>

InitPool ==
    /\ cloud = "gs"
    /\ obj = NoObj
    /\ sess = [w \in Writers |-> <<>>]
    /\ lastFin = 0
    /\ ws = [w \in Writers |-> NewWriter]
    /\ faults = 0
    /\ rd = NewReader
    /\ tm = IdleTokens
    /\ now = 0
    /\ ex = IdleExec
    /\ tree = IdleTree
    /\ fs = IdleStore
    /\ pool = [p \in Procs |-> IF p = 1 THEN NewProcess("run", 1)
                                        ELSE NewProcess("new", 0)]

NextPool ==
    \/ \E p \in Procs, t \in Threads : PoolAcquire(p, t)
    \/ \E p \in Procs, t \in Threads : PoolGet(p, t)
    \/ \E p \in Procs, t \in Threads, c \in Procs, pid \in Pids : Fork(p, t, c, pid)
    \/ \E p \in Procs : Exit(p)

SpecPool == InitPool /\ [][NextPool]_vars

\* C11: HTTP pool fork safety: in one process every call returns the same
\* pool, a process constructs one pool at most, whatever its threads do, and
\* every pool a call returns was constructed by the calling process, so a
\* child's pool is never its parent's.
C11_PoolIsProcessLocal ==
    \A p \in Procs :
        /\ pool[p].made <= 1
        /\ \A t \in Threads :
              pool[p].ret[t] # 0 =>
                  /\ PoolOwner(pool[p].ret[t]) = p
                  /\ \A u \in Threads :
                        pool[p].ret[u] # 0 => pool[p].ret[u] = pool[p].ret[t]

---------------------------------------------------------------------------
(* Objects with their stored digests, and md5(path)                         *)

Schemes == {"local", "gs", "as"}
Slots == {"src", "dst"}

\* the content of n bytes written as version v of an object
Content(v, n) == [k \in 1..n |-> 10 * v + k]

\* An MD5 digest in the encodings the code handles: the base64 text stored as
\* md5Hash / Content-MD5, and the hex text the functions return.  of is the
\* byte string digested.
NoDigest == [has |-> FALSE, enc |-> "none", of |-> <<>>]
B64Digest(data) == [has |-> TRUE, enc |-> "b64", of |-> data]
HexDigest(data) == [has |-> TRUE, enc |-> "hex", of |-> data]

\* base64.b64decode(x).hex()
B64ToHex(d) == IF d.enc = "b64" THEN [d EXCEPT !.enc = "hex"] ELSE [d EXCEPT !.enc = "bad"]

\* base64.b64encode(binascii.unhexlify(x))
HexToB64(d) == IF d.enc = "hex" THEN [d EXCEPT !.enc = "b64"] ELSE [d EXCEPT !.enc = "bad"]

NoFile == [exists |-> FALSE, data |-> <<>>, md5 |-> NoDigest, etag |-> 0]
File(data, md5, etag) == [exists |-> TRUE, data |-> data, md5 |-> md5, etag |-> etag]

\* _block_md5: read blocks of CHUNK_SIZE until an empty one, updating the hash
RECURSIVE block_md5(_, _, _)
block_md5(data, pos, m) ==
    LET block == Slice(data, pos, Min(pos + CHUNK_SIZE, Len(data)))
    IN IF block = <<>> THEN m ELSE block_md5(data, pos + Len(block), m \o block)

\* no md5 call
IdleMd5 ==
    [pc |-> "idle", slot |-> "src", etag |-> 0, result |-> NoDigest,
     exc |-> "none", upd |-> "none", changed |-> FALSE, before |-> NoDigest]

\* md5(path) called on the object of a slot
Md5Start(slot) == [IdleMd5 EXCEPT !.pc = "stat", !.slot = slot]

\* md5 up to the end of its first request: _google_isfile / _azure_isfile and
\* what the metadata holds; on a local path nothing is asked
Md5AfterStat(m, scheme, f) ==
    IF scheme = "local" THEN [m EXCEPT !.pc = "read"]
    ELSE IF ~f.exists THEN [m EXCEPT !.pc = "done", !.exc = "FileNotFoundError"]
    ELSE IF scheme = "gs"
         THEN IF f.md5.has
              THEN [m EXCEPT !.pc = "done", !.result = B64ToHex(f.md5)]
              ELSE [m EXCEPT !.pc = "done", !.exc = "KeyError"]
    ELSE IF f.md5.has
         THEN [m EXCEPT !.pc = "done", !.result = B64ToHex(f.md5)]
         ELSE [m EXCEPT !.pc = "read", !.etag = f.etag]

\* with BlobFile(path, "rb") as f: _block_md5(f).hex()
Md5AfterRead(m, scheme, f) ==
    IF ~f.exists THEN [m EXCEPT !.pc = "done", !.exc = "FileNotFoundError"]
    ELSE [m EXCEPT !.pc = IF scheme = "as" THEN "update" ELSE "done",
                   !.result = HexDigest(block_md5(f.data, 0, <<>>))]

\* the answer to the properties PUT with If-Match: 404 when the blob is gone,
\* 412 when its ETag is another, 200 otherwise
UpdateStatus(f, etag) ==
    IF ~f.exists THEN 404 ELSE IF f.etag # etag THEN 412 ELSE 200

\* _azure_maybe_update_md5 as md5 calls it: assert status in (200, 412),
\* return status == 200; md5 ignores what it returns
azure_maybe_update_md5(m, f) ==
    LET status == UpdateStatus(f, m.etag)
    IN [m EXCEPT !.pc = "done",
                 !.changed = ~f.exists \/ f.etag # m.etag,
                 !.before = f.md5,
                 !.upd = IF status = 200 THEN "true"
                         ELSE IF status = 412 THEN "false" ELSE "raised",
                 !.exc = IF status \in {200, 412} THEN @ ELSE "AssertionError"]

\* the blob after the properties PUT: with 200 the digest is stored, and the
\* ETag is a new one
AfterUpdate(f, m, clock) ==
    IF UpdateStatus(f, m.etag) = 200
    THEN [f EXCEPT !.md5 = HexToB64(m.result), !.etag = clock + 1]
    ELSE f

Md5Call(slot) ==
    /\ fs.cp.pc = "idle"
    /\ fs.md.pc = "idle"
    /\ fs' = [fs EXCEPT !.md = Md5Start(slot)]
    /\ UNCHANGED <<cloud, obj, sess, lastFin, ws, faults, rd, tm, now, ex, pool, tree>>

Md5Stat ==
    /\ fs.md.pc = "stat"
    /\ fs' = [fs EXCEPT !.md = Md5AfterStat(@, fs.scheme[fs.md.slot], fs.store[fs.md.slot])]
    /\ UNCHANGED <<cloud, obj, sess, lastFin, ws, faults, rd, tm, now, ex, pool, tree>>

Md5Read ==
    /\ fs.md.pc = "read"
    /\ fs' = [fs EXCEPT !.md = Md5AfterRead(@, fs.scheme[fs.md.slot], fs.store[fs.md.slot])]
    /\ UNCHANGED <<cloud, obj, sess, lastFin, ws, faults, rd, tm, now, ex, pool, tree>>

Md5Update ==
    /\ fs.md.pc = "update"
    /\ fs' = [fs EXCEPT !.md = azure_maybe_update_md5(@, fs.store[fs.md.slot]),
                        !.store[fs.md.slot] = AfterUpdate(@, fs.md, fs.clock),
                        !.clock = @ + 1]
    /\ UNCHANGED <<cloud, obj, sess, lastFin, ws, faults, rd, tm, now, ex, pool, tree>>

\* another client writes the object anew, with a stored digest or, on GCS as
\* a composite object and on Azure at will, without one
Overwrite(slot, n, stored) ==
    /\ fs.events < MaxEvents
    /\ ~(fs.scheme[slot] = "local" /\ stored)
    /\ fs.md.pc \notin {"idle", "done"}
    /\ LET data == Content(fs.clock + 1, n)
       IN fs' = [fs EXCEPT !.store[slot] =
                              File(data, IF stored THEN B64Digest(data) ELSE NoDigest,
                                   fs.clock + 1),
                           !.clock = @ + 1,
                           !.events = @ + 1]
    /\ UNCHANGED <<cloud, obj, sess, lastFin, ws, faults, rd, tm, now, ex, pool, tree>>

\* another client removes the object
RemoveFile(slot) ==
    /\ fs.events < MaxEvents
    /\ fs.md.pc \notin {"idle", "done"}
    /\ fs.store[slot].exists
    /\ fs' = [fs EXCEPT !.store[slot] = NoFile, !.events = @ + 1]
    /\ UNCHANGED <<cloud, obj, sess, lastFin, ws, faults, rd, tm, now, ex, pool, tree>>

\* no copy call.  before and srcBefore are the objects as the call found
\* them, wrote counts the requests that create, write or copy to dst, calls
\* the calls made and prev is how the call before this one ended.
IdleCopy ==
    [pc |-> "idle", overwrite |-> FALSE, return_md5 |-> FALSE, pos |-> 0,
     m |-> <<>>, sess |-> <<>>, iter |-> 0, token |-> 0, sent |-> 0, status |-> "none",
     result |-> "none", ret |-> NoDigest, before |-> NoFile,
     srcBefore |-> NoFile, wrote |-> 0, calls |-> 0, prev |-> "none"]

\* the objects a path of a scheme can hold: none, or a content with the
\* digest stored with it (a local file has none, a composite GCS object has
\* none, an Azure blob has one if a client stored it)
FilesOf(scheme) ==
    {NoFile} \cup
    {File(Content(0, n), d, 1) :
        n \in 0..MaxData,
        d \in {NoDigest}} \cup
    {File(Content(0, n), B64Digest(Content(0, n)), 1) :
        n \in IF scheme = "local" THEN {} ELSE 0..MaxData}

InitMd5 ==
    /\ cloud = "gs"
    /\ obj = NoObj
    /\ sess = [w \in Writers |-> <<>>]
    /\ lastFin = 0
    /\ ws = [w \in Writers |-> NewWriter]
    /\ faults = 0
    /\ rd = NewReader
    /\ tm = IdleTokens
    /\ now = 0
    /\ ex = IdleExec
    /\ tree = IdleTree
    /\ pool = IdlePool
    /\ \E scheme \in Schemes, f \in UNION {FilesOf(k) : k \in Schemes} :
          /\ f \in FilesOf(scheme)
          /\ fs = [scheme |-> [k \in Slots |-> scheme],
                   store |-> [k \in Slots |-> IF k = "src" THEN f ELSE NoFile],
                   clock |-> 1, events |-> 0, cp |-> IdleCopy, md |-> IdleMd5]

NextMd5 ==
    \/ Md5Call("src")
    \/ Md5Stat
    \/ Md5Read
    \/ Md5Update
    \/ \E n \in 0..MaxData, stored \in BOOLEAN : Overwrite("src", n, stored)
    \/ RemoveFile("src")

SpecMd5 == InitMd5 /\ [][NextMd5]_vars

\* the object md5 was called on
Md5File == fs.store[fs.md.slot]

\* C16: on a GCS object whose metadata has no md5Hash, md5(p) does not raise
\* for want of it: it returns the hex MD5 of the content it streamed, and,
\* unless the object was written anew meanwhile, the digest is in the metadata
\* afterwards.
C16_CompositeObjectMd5 ==
    (fs.md.pc = "done" /\ fs.scheme[fs.md.slot] = "gs") =>
        /\ fs.md.exc \in {"none", "FileNotFoundError"}
        /\ (fs.md.exc = "none" /\ fs.events = 0) =>
              /\ fs.md.result = HexDigest(Md5File.data)
              /\ Md5File.md5 = B64Digest(Md5File.data)

\* C17: on Azure the computed MD5 is stored only by an update conditioned on
\* the ETag seen before the blob was read: if the blob was overwritten or
\* removed meanwhile the update reports false, raises nothing and leaves the
\* stored MD5 as it was; with the ETag unchanged it reports true.
C17_ConditionalMd5Update ==
    (fs.md.pc = "done" /\ fs.md.upd # "none") =>
        /\ fs.md.changed =>
              /\ fs.md.upd = "false"
              /\ fs.md.exc = "none"
              /\ Md5File.md5 = fs.md.before
        /\ ~fs.md.changed =>
              /\ fs.md.upd = "true"
              /\ Md5File.md5 = HexToB64(fs.md.result)

---------------------------------------------------------------------------
(* copy(src, dst, overwrite, return_md5)                                    *)

CopyCall(overwrite, return_md5) ==
    /\ fs.cp.pc \in {"idle", "done"}
    /\ fs.cp.calls < MaxCopies
    /\ fs' = [fs EXCEPT !.cp = [IdleCopy EXCEPT !.pc = "check",
                                                !.overwrite = overwrite,
                                                !.return_md5 = return_md5,
                                                !.before = fs.store["dst"],
                                                !.srcBefore = fs.store["src"],
                                                !.calls = fs.cp.calls + 1,
                                                !.prev = fs.cp.result],
                        !.md = IdleMd5]
    /\ UNCHANGED <<cloud, obj, sess, lastFin, ws, faults, rd, tm, now, ex, pool, tree>>

\* copy ends with an exception
CopyRaise(c, e) == [c EXCEPT !.pc = "done", !.result = e]

\* the branch of copy that opens the destination without opening the source
CopyPathDstFirst(src, dst) ==
    IF src = "gs" /\ dst = "gs" THEN "rewrite"
    ELSE IF src = "as" /\ dst = "as" THEN "copyblob"
    ELSE "open_dst"

\* the branch of copy the two schemes select
CopyPath(src, dst) ==
    IF src = "gs" /\ dst = "gs" THEN "rewrite"
    ELSE IF src = "as" /\ dst = "as" THEN "copyblob"
    ELSE "open_src"

\* a copy that refuses nothing
CopyRefusedNever(overwrite, f) == FALSE

\* if not overwrite: if exists(dst)
CopyRefused(overwrite, f) == ~overwrite /\ f.exists

\* the test of overwrite, which raises FileExistsError; then the branch
CopyCheck ==
    /\ fs.cp.pc = "check"
    /\ fs' = [fs EXCEPT !.cp =
                 IF CopyRefused(fs.cp.overwrite, fs.store["dst"])
                 THEN CopyRaise(@, "FileExistsError")
                 ELSE [@ EXCEPT !.pc = CopyPath(fs.scheme["src"], fs.scheme["dst"])]]
    /\ UNCHANGED <<cloud, obj, sess, lastFin, ws, faults, rd, tm, now, ex, pool, tree>>

\* the bytes the server has copied after a rewrite request that carries the
\* token of a rewrite that had copied token bytes (0: no token)
Rewritten(f, token) == Min(token + RewriteBudget, Len(f.data))

\* one iteration of the rewrite loop: params = {} at its top, so the request
\* carries no token; 404 raises, done returns (the md5Hash of the resource if
\* asked for), otherwise the token is kept and the loop goes on
CopyRewrite ==
    /\ fs.cp.pc = "rewrite"
    /\ fs.cp.iter < MaxRewrites
    /\ LET src == fs.store["src"]
           params == 0
           n == Rewritten(src, params)
           c == [fs.cp EXCEPT !.iter = @ + 1, !.sent = params]
       IN IF ~src.exists
          THEN fs' = [fs EXCEPT !.cp = CopyRaise(c, "FileNotFoundError")]
          ELSE IF n = Len(src.data)
          THEN fs' = [fs EXCEPT
                        !.store["dst"] = File(src.data, src.md5, fs.clock + 1),
                        !.clock = @ + 1,
                        !.cp = IF c.return_md5 /\ ~src.md5.has
                               THEN CopyRaise([c EXCEPT !.wrote = @ + 1], "KeyError")
                               ELSE [c EXCEPT !.pc = "done", !.result = "ok",
                                              !.wrote = @ + 1,
                                              !.ret = IF c.return_md5
                                                      THEN B64ToHex(src.md5)
                                                      ELSE NoDigest]]
          ELSE fs' = [fs EXCEPT !.cp = [c EXCEPT !.token = n, !.wrote = @ + 1]]
    /\ UNCHANGED <<cloud, obj, sess, lastFin, ws, faults, rd, tm, now, ex, pool, tree>>

\* the copy the server has made of the source blob, properties included
CopiedBlob(src, clock) == File(src.data, src.md5, clock + 1)

\* after the copy status is known: pending polls, anything but success fails
\* the assert, success returns, through md5(dst) if the digest is asked for
AfterCopyStatus(c, status) ==
    IF status = "pending" THEN [c EXCEPT !.pc = "poll", !.status = status]
    ELSE IF status # "success" THEN CopyRaise([c EXCEPT !.status = status], "AssertionError")
    ELSE IF c.return_md5 THEN [c EXCEPT !.pc = "md5", !.status = status]
    ELSE [c EXCEPT !.pc = "done", !.status = status, !.result = "ok"]

\* PUT dst with x-ms-copy-source: 404 raises, 202 starts the copy, which is
\* done at once or pending
CopyBlobStart(status) ==
    /\ fs.cp.pc = "copyblob"
    /\ LET src == fs.store["src"]
       IN IF ~src.exists
          THEN fs' = [fs EXCEPT !.cp = CopyRaise(@, "FileNotFoundError")]
          ELSE fs' = [fs EXCEPT
                        !.store["dst"] = IF status = "success"
                                         THEN CopiedBlob(src, fs.clock)
                                         ELSE File(<<>>, NoDigest, fs.clock + 1),
                        !.clock = @ + 1,
                        !.cp = AfterCopyStatus([@ EXCEPT !.wrote = @ + 1], status),
                        !.md = IF status = "success" /\ fs.cp.return_md5
                               THEN Md5Start("dst") ELSE @]
    /\ UNCHANGED <<cloud, obj, sess, lastFin, ws, faults, rd, tm, now, ex, pool, tree>>

\* GET dst while the copy is pending, answered with a status that ends it
CopyBlobPoll(status) ==
    /\ fs.cp.pc = "poll"
    /\ fs' = [fs EXCEPT
                 !.store["dst"] = IF status = "success"
                                  THEN CopiedBlob(fs.store["src"], fs.clock)
                                  ELSE @,
                 !.clock = @ + 1,
                 !.cp = AfterCopyStatus(@, status),
                 !.md = IF status = "success" /\ fs.cp.return_md5
                        THEN Md5Start("dst") ELSE @]
    /\ UNCHANGED <<cloud, obj, sess, lastFin, ws, faults, rd, tm, now, ex, pool, tree>>

\* return md5(dst)
CopyReturnMd5 ==
    /\ fs.cp.pc = "md5"
    /\ fs.md.pc = "done"
    /\ fs' = [fs EXCEPT !.cp = IF fs.md.exc = "none"
                               THEN [@ EXCEPT !.pc = "done", !.result = "ok",
                                              !.ret = fs.md.result]
                               ELSE CopyRaise(@, fs.md.exc)]
    /\ UNCHANGED <<cloud, obj, sess, lastFin, ws, faults, rd, tm, now, ex, pool, tree>>

\* BlobFile(src, "rb"): a missing source raises before dst is opened
CopyOpenSrc ==
    /\ fs.cp.pc = "open_src"
    /\ fs' = [fs EXCEPT !.cp = IF fs.store["src"].exists
                               THEN [@ EXCEPT !.pc = "open_dst"]
                               ELSE CopyRaise(@, "FileNotFoundError")]
    /\ UNCHANGED <<cloud, obj, sess, lastFin, ws, faults, rd, tm, now, ex, pool, tree>>

\* BlobFile(dst, "wb"): a local file is created empty, an Azure append blob
\* is created empty, a GCS session is opened and the object stays as it is
CopyOpenDst ==
    /\ fs.cp.pc = "open_dst"
    /\ fs' = [fs EXCEPT
                 !.store["dst"] = IF fs.scheme["dst"] = "gs" THEN @
                                  ELSE File(<<>>, NoDigest, fs.clock + 1),
                 !.clock = @ + 1,
                 !.cp = [@ EXCEPT !.pc = "loop", !.wrote = @ + 1]]
    /\ UNCHANGED <<cloud, obj, sess, lastFin, ws, faults, rd, tm, now, ex, pool, tree>>

\* dst after the writer has taken a block: local bytes and Azure blocks are
\* appended, the Azure writer storing its running MD5; GCS bytes go to the
\* session
AfterWrite(f, scheme, block, clock) ==
    IF scheme = "gs" THEN f
    ELSE IF scheme = "as"
         THEN File(f.data \o block, B64Digest(f.data \o block), clock + 1)
    ELSE File(f.data \o block, NoDigest, clock + 1)

\* one iteration of the loop: read CHUNK_SIZE bytes, break on b"", else
\* update the hash if asked for and write the block
CopyBlock ==
    /\ fs.cp.pc = "loop"
    /\ LET src == fs.store["src"]
           block == Slice(src.data, fs.cp.pos, Min(fs.cp.pos + CHUNK_SIZE, Len(src.data)))
       IN IF block = <<>>
          THEN fs' = [fs EXCEPT !.cp = [@ EXCEPT !.pc = "close"]]
          ELSE fs' = [fs EXCEPT
                        !.store["dst"] = AfterWrite(@, fs.scheme["dst"], block, fs.clock),
                        !.clock = @ + 1,
                        !.cp = [@ EXCEPT !.pos = @ + Len(block),
                                         !.m = IF fs.cp.return_md5 THEN @ \o block ELSE @,
                                         !.sess = @ \o block,
                                         !.wrote = @ + 1]]
    /\ UNCHANGED <<cloud, obj, sess, lastFin, ws, faults, rd, tm, now, ex, pool, tree>>

\* return m.hexdigest() if asked for, and the streams are closed: the GCS
\* session is finalized into the object, whose md5Hash the server computes
CopyClose ==
    /\ fs.cp.pc = "close"
    /\ fs' = [fs EXCEPT
                 !.store["dst"] = IF fs.scheme["dst"] = "gs"
                                  THEN File(fs.cp.sess, B64Digest(fs.cp.sess), fs.clock + 1)
                                  ELSE @,
                 !.clock = @ + 1,
                 !.cp = [@ EXCEPT !.pc = "done", !.result = "ok",
                                  !.ret = IF fs.cp.return_md5 THEN HexDigest(fs.cp.m)
                                          ELSE NoDigest]]
    /\ UNCHANGED <<cloud, obj, sess, lastFin, ws, faults, rd, tm, now, ex, pool, tree>>

\* an Azure blob as a writer leaves it whose append was refused with 412 (see
\* C3): the content is another writer's, the Content-MD5 its own
StaleBlob == File(Content(0, 1), B64Digest(Content(9, 2)), 1)

\* the objects at src
SourcesOf(scheme) ==
    IF scheme = "as" THEN FilesOf(scheme) \cup {StaleBlob} ELSE FilesOf(scheme)

\* the objects at dst: none, or one written earlier
TargetsOf(scheme) ==
    {NoFile,
     File(Content(5, 1), IF scheme = "local" THEN NoDigest ELSE B64Digest(Content(5, 1)), 1)}

InitCopy ==
    /\ cloud = "gs"
    /\ obj = NoObj
    /\ sess = [w \in Writers |-> <<>>]
    /\ lastFin = 0
    /\ ws = [w \in Writers |-> NewWriter]
    /\ faults = 0
    /\ rd = NewReader
    /\ tm = IdleTokens
    /\ now = 0
    /\ ex = IdleExec
    /\ tree = IdleTree
    /\ pool = IdlePool
    /\ \E s \in Schemes, d \in Schemes :
          \E f \in SourcesOf(s), g \in TargetsOf(d) :
              fs = [scheme |-> [src |-> s, dst |-> d],
                    store |-> [src |-> f, dst |-> g],
                    clock |-> 1, events |-> 0, cp |-> IdleCopy, md |-> IdleMd5]

NextCopy ==
    \/ \E overwrite \in BOOLEAN, return_md5 \in BOOLEAN : CopyCall(overwrite, return_md5)
    \/ CopyCheck
    \/ CopyRewrite
    \/ \E status \in {"success", "pending"} : CopyBlobStart(status)
    \/ \E status \in {"success", "failed"} : CopyBlobPoll(status)
    \/ CopyReturnMd5
    \/ CopyOpenSrc
    \/ CopyOpenDst
    \/ CopyBlock
    \/ CopyClose
    \/ Md5Stat
    \/ Md5Read
    \/ Md5Update

SpecCopy == InitCopy /\ [][NextCopy]_vars

\* copy has ended
CopyDone == fs.cp.pc = "done"

\* C12: copy with overwrite = false on a destination that exists raises
\* FileExistsError before any request that creates, writes or copies to dst,
\* and dst is as it was; with overwrite = true (and the source there, no
\* digest asked for, the server not failing the copy) it succeeds, and dst
\* holds the content of the source.
C12_OverwriteSemantics ==
    (CopyDone /\ fs.cp.before.exists) =>
        /\ ~fs.cp.overwrite =>
              /\ fs.cp.result = "FileExistsError"
              /\ fs.cp.wrote = 0
              /\ fs.store["dst"] = fs.cp.before
        /\ (fs.cp.overwrite /\ fs.cp.srcBefore.exists /\ ~fs.cp.return_md5
               /\ fs.cp.status # "failed") =>
              /\ fs.cp.result = "ok"
              /\ fs.cp.wrote > 0
              /\ fs.store["dst"].exists
              /\ fs.store["dst"].data = fs.store["src"].data

\* C12, witness: a copy was refused for the object at dst, and the same copy
\* with overwrite = true has replaced that object with the three bytes of the
\* source
C12_Witness ==
    /\ CopyDone
    /\ fs.cp.prev = "FileExistsError"
    /\ fs.cp.before.exists
    /\ fs.cp.overwrite
    /\ fs.cp.result = "ok"
    /\ Len(fs.store["src"].data) = 3
    /\ fs.store["dst"].data = fs.store["src"].data
    /\ fs.store["dst"].data # fs.cp.before.data

\* C13: copy equivalence: for every pair of schemes a copy that succeeds
\* leaves at dst the content of the source, and with return_md5 it returns
\* the hex MD5 of that content.
C13_CopyEquivalence ==
    (CopyDone /\ fs.cp.result = "ok") =>
        /\ fs.store["dst"].exists
        /\ fs.store["dst"].data = fs.store["src"].data
        /\ fs.cp.return_md5 => fs.cp.ret = HexDigest(fs.store["dst"].data)

---------------------------------------------------------------------------
\* Directories over the flat key space of a bucket or container: isdir,
\* exists, listdir (plain and sharded), rmdir, rmtree.  A path is written as
\* its key within the bucket: <<>> is the bucket root, whose URL ends in "/".

\* ord("/") and the code points of the characters the keys of the model are
\* made of: "a", "b", "d", and one beyond U+00FF
Slash == 47
CharA == 97
CharB == 98
CharD == 100
CharWide == 20013

INVALID_CHARS == (0..8) \cup (11..13) \cup (14..31)

\* listdir: the characters the shard prefixes are made of
valid_chars == {c \in 0..255 : c \notin INVALID_CHARS /\ c # Slash}

Strings(chars, n) == UNION {[1..m -> chars] : m \in 0..n}

HasSlash(s) == \E i \in 1..Len(s) : s[i] = Slash

\* no two slashes in a row: no component of the key is empty
NoEmptyName(s) == \A i \in 1..(Len(s) - 1) : ~(s[i] = Slash /\ s[i + 1] = Slash)

Drop(s, n) == SubSeq(s, n + 1, Len(s))

EndsWithSlash(path) == path = <<>> \/ path[Len(path)] = Slash

\* if not path.endswith("/"): path += "/"
WithSlash(path) == IF EndsWithSlash(path) THEN path ELSE path \o <<Slash>>

strip_slash(path) ==
    IF path # <<>> /\ path[Len(path)] = Slash
    THEN SubSeq(path, 1, Len(path) - 1)
    ELSE path

\* the sets of at most n elements of S
RECURSIVE SetsUpTo(_, _)
SetsUpTo(S, n) ==
    IF n = 0 THEN {{}}
    ELSE LET T == SetsUpTo(S, n - 1)
         IN T \cup {K \cup {x} : K \in T, x \in S}

\* the objects service answers a listing of prefix with delimiter "/" by the
\* keys that start with the prefix and have no slash after it (items) ...
ListItems(keys, prefix) ==
    {k \in keys : IsPrefix(prefix, k) /\ ~HasSlash(Drop(k, Len(prefix)))}

FirstSlash(s) == CHOOSE i \in 1..Len(s) : s[i] = Slash /\ \A j \in 1..(i - 1) : s[j] # Slash

\* ... and, for the keys with a slash after it, by the key up to that slash
\* (prefixes)
ListPrefixes(keys, prefix) ==
    {SubSeq(k, 1, Len(prefix) + FirstSlash(Drop(k, Len(prefix)))) :
        k \in {h \in keys : IsPrefix(prefix, h) /\ HasSlash(Drop(h, Len(prefix)))}}

\* _google_get_names / _azure_get_names without the test of skip_item_name
get_names_all(keys, prefix, skip_item_name) ==
    ListPrefixes(keys, prefix) \cup ListItems(keys, prefix)

\* _google_get_names / _azure_get_names over all pages of the listing
get_names(keys, prefix, skip_item_name) ==
    ListPrefixes(keys, prefix) \cup (ListItems(keys, prefix) \ {skip_item_name})

list_suffixes(keys, prefix, exclude_prefix) ==
    {strip_slash(Drop(name, Len(prefix))) :
        name \in get_names(keys, prefix, IF exclude_prefix THEN prefix ELSE <<>>)}

isfile(keys, path) == path # <<>> /\ path \in keys

\* isdir without the slash appended to the path
isdir_bare(keys, path) ==
    IF path = <<>> THEN TRUE
    ELSE ListItems(keys, path) \cup ListPrefixes(keys, path) # {}

\* the bucket of the model exists
isdir(keys, path) ==
    LET blob_prefix == WithSlash(path)
    IN IF blob_prefix = <<>> THEN TRUE
       ELSE ListItems(keys, blob_prefix) \cup ListPrefixes(keys, blob_prefix) # {}

exists(keys, path) == isfile(keys, path) \/ isdir(keys, path)

\* the directory operation in progress: the keys when it was called, what it
\* has yielded, what it still has to do, how it ended; again: the call before
\* it was the same call and succeeded, and earlier holds the keys before that
\* call; ret is the value a call that answers by a boolean returned; dq and
\* yielded are the deque of walk and the triples it has yielded
NewTree(keys) ==
    [keys |-> keys, pc |-> "idle", op |-> "none", path |-> <<>>, k |-> 0,
     tasks |-> {}, items |-> {}, pending |-> {}, exc |-> "none",
     before |-> keys, again |-> FALSE, earlier |-> keys, lost |-> 0,
     ret |-> FALSE, dq |-> <<>>, yielded |-> <<>>]

TreeIdle == tree.pc \in {"idle", "done"}

TreeCall(op, path) ==
    [tree EXCEPT !.pc = "done", !.op = op, !.path = path, !.k = 0,
                 !.tasks = {}, !.items = {}, !.pending = {}, !.exc = "none",
                 !.before = tree.keys, !.lost = 0, !.ret = FALSE,
                 !.dq = <<>>, !.yielded = <<>>,
                 !.again = (tree.op = op /\ tree.path = path /\ tree.exc = "none"),
                 !.earlier = IF tree.op = op /\ tree.path = path /\ tree.exc = "none"
                             THEN tree.before ELSE tree.keys]

TreeRaise(t, exc) == [t EXCEPT !.pc = "done", !.exc = exc]

\* the status of DELETE on a key
DeleteStatus(keys, key) ==
    IF key \notin keys THEN 404 ELSE IF cloud = "gs" THEN 204 ELSE 202

\* listdir(path) as rmdir and the callers of shard_prefix_length=0 see it
ListdirOutcome(keys, path) ==
    LET p == WithSlash(path)
    IN IF ~exists(keys, p) THEN [exc |-> "FileNotFoundError", names |-> {}]
       ELSE IF ~isdir(keys, p) THEN [exc |-> "NotADirectoryError", names |-> {}]
       ELSE [exc |-> "none", names |-> list_suffixes(keys, p, TRUE)]

Rmdir(path) ==
    /\ TreeIdle
    /\ LET t == TreeCall("rmdir", path)
           p == WithSlash(path)
           l == ListdirOutcome(tree.keys, p)
       IN tree' =
            IF p = <<>> THEN TreeRaise(t, "Exception")
            ELSE IF l.exc = "FileNotFoundError" THEN t
            ELSE IF l.exc # "none" THEN TreeRaise(t, l.exc)
            ELSE IF l.names # {} THEN TreeRaise(t, "OSError")
            ELSE IF DeleteStatus(tree.keys, p) = 404 THEN TreeRaise(t, "AssertionError")
            ELSE [t EXCEPT !.keys = @ \ {p}]
    /\ UNCHANGED <<cloud, obj, sess, lastFin, ws, faults, rd, tm, now, ex, pool, fs>>

\* the prefix rmtree lists, cut to the path as given
RmtreePrefixBare(path) == path

RmtreePrefix(path) == WithSlash(path)

\* rmtree up to its listing of every key under the prefix
RmtreeCall(path) ==
    /\ TreeIdle
    /\ LET t == TreeCall("rmtree", path)
       IN tree' =
            IF ~isdir(tree.keys, path) THEN TreeRaise(t, "NotADirectoryError")
            ELSE [t EXCEPT !.pc = "deleting",
                           !.pending = {k \in tree.keys : IsPrefix(RmtreePrefix(path), k)}]
    /\ UNCHANGED <<cloud, obj, sess, lastFin, ws, faults, rd, tm, now, ex, pool, fs>>

\* one DELETE of rmtree, answered 204/202 or 404
RmtreeDelete ==
    /\ tree.pc = "deleting"
    /\ \E item \in tree.pending :
          /\ DeleteStatus(tree.keys, item) \in {202, 204, 404}
          /\ tree' = [tree EXCEPT !.keys = @ \ {item}, !.pending = @ \ {item}]
    /\ UNCHANGED <<cloud, obj, sess, lastFin, ws, faults, rd, tm, now, ex, pool, fs>>

\* a DELETE that removed the object while its answer was lost: the request is
\* sent again
RmtreeDeleteLost ==
    /\ tree.pc = "deleting"
    /\ tree.lost < MaxLost
    /\ \E item \in tree.pending \cap tree.keys :
          tree' = [tree EXCEPT !.keys = @ \ {item}, !.lost = @ + 1]
    /\ UNCHANGED <<cloud, obj, sess, lastFin, ws, faults, rd, tm, now, ex, pool, fs>>

RmtreeReturn ==
    /\ tree.pc = "deleting"
    /\ tree.pending = {}
    /\ tree' = [tree EXCEPT !.pc = "done"]
    /\ UNCHANGED <<cloud, obj, sess, lastFin, ws, faults, rd, tm, now, ex, pool, fs>>

\* the characters of the names of the model, and those of them a shard
\* prefix is made of: a prefix with any other character matches no key
NameChars == {CharA, CharB, CharWide}
ShardChars == valid_chars \cap NameChars

\* listdir: the tasks (path, prefix, exact) put on the queue
ShardTasks(k) ==
    UNION {{[prefix |-> s, exact |-> repeat # k] : s \in [1..repeat -> ShardChars]} :
              repeat \in 1..k}

\* listdir up to the start of the pool of workers
ListdirCall(path, shard_prefix_length) ==
    /\ TreeIdle
    /\ LET p == WithSlash(path)
           t == [TreeCall("listdir", p) EXCEPT !.k = shard_prefix_length]
           l == ListdirOutcome(tree.keys, p)
       IN tree' =
            IF l.exc # "none" THEN TreeRaise(t, l.exc)
            ELSE IF shard_prefix_length = 0 THEN [t EXCEPT !.items = l.names]
            ELSE [t EXCEPT !.pc = "sharded", !.tasks = ShardTasks(shard_prefix_length)]
    /\ UNCHANGED <<cloud, obj, sess, lastFin, ws, faults, rd, tm, now, ex, pool, fs>>

\* what _sharded_listdir_worker puts on the queue of items for one task
ShardItems(keys, base, task) ==
    IF task.exact
    THEN IF exists(keys, base \o task.prefix) THEN {task.prefix} ELSE {}
    ELSE {task.prefix \o item : item \in list_suffixes(keys, base \o task.prefix, FALSE)}

\* one task of _sharded_listdir_worker, and listdir yielding its items
ShardedListdirWorker ==
    /\ tree.pc = "sharded"
    /\ \E task \in tree.tasks :
          tree' = [tree EXCEPT !.tasks = @ \ {task},
                               !.items = @ \cup ShardItems(tree.keys, tree.path, task)]
    /\ UNCHANGED <<cloud, obj, sess, lastFin, ws, faults, rd, tm, now, ex, pool, fs>>

\* tasks_done = tasks_enqueued
ListdirReturn ==
    /\ tree.pc = "sharded"
    /\ tree.tasks = {}
    /\ tree' = [tree EXCEPT !.pc = "done"]
    /\ UNCHANGED <<cloud, obj, sess, lastFin, ws, faults, rd, tm, now, ex, pool, fs>>

\* the keys of a bucket around the directory "d": "d" followed by slashes and
\* letters
DirKeys ==
    {<<CharD>> \o s : s \in {t \in Strings({CharA, Slash}, MaxKeyLen) : NoEmptyName(t)}}

\* the paths rmdir and rmtree are called with: the root, "d", "d/", "d/a"
DirPaths == {<<>>, <<CharD>>, <<CharD, Slash>>, <<CharD, Slash, CharA>>}

\* the keys of a bucket under the directory "d": its marker, and "d/" followed
\* by names
ListKeys ==
    {<<CharD, Slash>> \o s :
        s \in {t \in Strings(NameChars \cup {Slash}, MaxNameLen) :
                  NoEmptyName(t) /\ (t = <<>> \/ t[1] # Slash)}}

InitTree(universe, n) ==
    /\ cloud \in {"gs", "as"}
    /\ obj = NoObj
    /\ sess = [w \in Writers |-> <<>>]
    /\ lastFin = 0
    /\ ws = [w \in Writers |-> NewWriter]
    /\ faults = 0
    /\ rd = NewReader
    /\ tm = IdleTokens
    /\ now = 0
    /\ ex = IdleExec
    /\ pool = IdlePool
    /\ fs = IdleStore
    /\ \E keys \in SetsUpTo(universe, n) : tree = NewTree(keys)

InitDir == InitTree(DirKeys, MaxKeys)

NextDir ==
    \/ \E path \in DirPaths : Rmdir(path)
    \/ \E path \in DirPaths : RmtreeCall(path)
    \/ RmtreeDelete
    \/ RmtreeDeleteLost
    \/ RmtreeReturn

SpecDir == InitDir /\ [][NextDir]_vars

InitList == InitTree(ListKeys, MaxListed)

NextList ==
    \/ \E k \in 0..MaxShard : ListdirCall(<<CharD>>, k)
    \/ ShardedListdirWorker
    \/ ListdirReturn

SpecList == InitList /\ [][NextList]_vars

\* the directory of prefix p has a child: a key under p other than its marker
HasChildren(keys, p) == \E k \in keys : IsPrefix(p, k) /\ k # p

\* the directory of prefix p exists: some key starts with p
DirExists(keys, p) == \E k \in keys : IsPrefix(p, k)

\* C18: rmdir on a directory that does not exist or is empty succeeds, and
\* afterwards the directory does not exist, so a second rmdir in a row
\* succeeds too; rmdir on a non-empty directory raises OSError and deletes no
\* object; rmdir on the bucket root is refused.
C18_RmdirIdempotent ==
    (tree.op = "rmdir" /\ tree.pc = "done") =>
        LET p == WithSlash(tree.path)
        IN /\ p = <<>> => (tree.exc = "Exception" /\ tree.keys = tree.before)
           /\ (p # <<>> /\ ~HasChildren(tree.before, p)) =>
                 /\ tree.exc = "none"
                 /\ tree.keys = tree.before \ {p}
                 /\ ~DirExists(tree.keys, p)
                 /\ ~isdir(tree.keys, p)
           /\ (p # <<>> /\ HasChildren(tree.before, p)) =>
                 (tree.exc = "OSError" /\ tree.keys = tree.before)
           /\ tree.again => (tree.exc = "none" /\ tree.keys = tree.before)

\* C18, witness: the second of two rmdir calls in a row has succeeded; the
\* first one removed the marker of the empty directory, next to another key
C18_Witness ==
    /\ tree.op = "rmdir"
    /\ tree.pc = "done"
    /\ tree.again
    /\ tree.exc = "none"
    /\ WithSlash(tree.path) \in tree.earlier
    /\ WithSlash(tree.path) \notin tree.keys
    /\ tree.keys # {}

\* C19: rmtree(D) with no concurrent writer ends with no key under D/ and
\* never touches a key without that prefix, siblings whose name starts with
\* the name of D included; a 404 on a DELETE does not abort it; on a path that
\* is not a directory it raises NotADirectoryError and deletes nothing.
C19_RmtreeRemovesSubtree ==
    tree.op = "rmtree" =>
        LET p == WithSlash(tree.path)
            outside(keys) == {k \in keys : ~IsPrefix(p, k)}
        IN /\ outside(tree.keys) = outside(tree.before)
           /\ tree.keys \subseteq tree.before
           /\ (tree.pc = "done" /\ (p = <<>> \/ DirExists(tree.before, p))) =>
                 (tree.exc = "none" /\ tree.keys = outside(tree.before))
           /\ (tree.pc = "done" /\ ~(p = <<>> \/ DirExists(tree.before, p))) =>
                 (tree.exc = "NotADirectoryError" /\ tree.keys = tree.before)

\* C19, witness: rmtree("d") has returned after a DELETE answered 404; it
\* removed a key of a sub-directory and left the sibling whose name starts
\* with "d"
C19_Witness ==
    /\ tree.op = "rmtree"
    /\ tree.pc = "done"
    /\ tree.exc = "none"
    /\ tree.path = <<CharD>>
    /\ tree.lost > 0
    /\ \E k \in tree.before \ tree.keys : HasSlash(Drop(k, Len(tree.path) + 1))
    /\ \E k \in tree.keys : IsPrefix(tree.path, k)

\* C20: for k in {0, 1, 2} the names listdir(D, shard_prefix_length=k) yields
\* are, as a set, the names listdir(D) yields.
C20_ShardedListingParity ==
    (tree.op = "listdir" /\ tree.pc = "done" /\ tree.exc = "none") =>
        tree.items = ListdirOutcome(tree.keys, tree.path).names

---------------------------------------------------------------------------
(* Further claims about the write streams, checked under SpecWrite *)

\* the bytes write() took that no successful upload has carried
NotUploaded(s) == SubSeq(s.acc, s.offset + 1, Len(s.acc))

\* C28: an upload that raises leaves offset and pending_buffer as they were
\* before the attempt: the bytes taken by write and not yet uploaded are still
\* in the buffer, and a GCS object finalized by a later close holds every
\* byte the writer took.
C28_FailedUploadKeepsBytes ==
    \A w \in Writers :
        /\ (ws[w].raised /\ ws[w].pc = "idle" /\ ws[w].st = "open") =>
              ws[w].buf = NotUploaded(ws[w])
        /\ (cloud = "gs" /\ ws[w].st = "closed" /\ lastFin = w) =>
              obj.data = ws[w].acc

\* the chunk a GCS writer is sending
GoogleSending(w) == cloud = "gs" /\ ws[w].pc = "sending"

\* C29: the chunks PUT to a GCS session carry contiguous Content-Range
\* values from 0 (start = bytes the session holds, end = start + length - 1),
\* the total is "*" on a non-final chunk and the number of bytes accepted by
\* write on the final one, an empty final chunk is "bytes */T", and the
\* session accepts each of them.
C29_ContiguousContentRange ==
    \A w \in Writers :
        GoogleSending(w) =>
            LET s == ws[w]
                cr == ContentRange(s)
            IN /\ Len(s.chunk) > 0 =>
                     (cr[1] = Len(sess[w]) /\ cr[2] = cr[1] + Len(s.chunk) - 1)
               /\ ~s.fin => cr[3] = -1
               /\ s.fin => cr[3] = Len(s.acc)
               /\ (s.fin /\ Len(s.chunk) = 0) => (cr[1] = -1 /\ cr[2] = -1)
               /\ SessionAccepts(w, cr)

\* 2 ** 20, the size of a GCS chunk in bytes, and the 256 KiB its chunks must
\* be multiples of
GoogleChunkBytes == 1024 * 1024
GoogleChunkUnit == 256 * 1024

\* C30: after write returned, the buffer holds at most one chunk size; a chunk
\* uploaded without the finalize flag has a length that is a positive
\* multiple of the chunk size (a multiple of 256 KiB on GCS); only the chunk
\* close uploads may have another length.
C30_Chunking ==
    /\ GoogleChunkBytes % GoogleChunkUnit = 0
    /\ \A w \in Writers :
          /\ (ws[w].st = "open" /\ ws[w].pc = "idle") => Len(ws[w].buf) <= chunk_size
          /\ (ws[w].pc \in {"sending", "props"} /\ ~ws[w].fin) =>
                /\ Len(ws[w].chunk) > 0
                /\ Len(ws[w].chunk) % chunk_size = 0
                /\ Len(ws[w].buf) < chunk_size

\* C30, witness: a chunk of two chunk sizes is being uploaded by write, one
\* byte stays in the buffer; the other writer is finalizing an empty chunk
C30_Witness ==
    /\ ws[1].pc = "sending"
    /\ ~ws[1].fin
    /\ Len(ws[1].chunk) = 2 * chunk_size
    /\ Len(ws[1].buf) = 1
    /\ ws[2].pc = "sending"
    /\ ws[2].fin
    /\ Len(ws[2].chunk) = 0

---------------------------------------------------------------------------
(* Further claims about the read stream, checked under SpecRead *)

\* the object was replaced once, by a longer one, and no seek moved the offset
Grown ==
    /\ rd.st = "open"
    /\ rd.repl = 1
    /\ Len(obj.data) > rd.size
    /\ ~rd.sought

\* C25: when the object has grown after the reader was opened, the reader
\* returns bytes only at positions below the size recorded at open: what it
\* has returned from offset 0 is never longer than that size, whatever the
\* sizes of the buffers.
C25_GrowthReadsStopAtSize ==
    Grown => (Len(rd.out) <= rd.size /\ rd.offset <= rd.size)

\* C26, in every state: bytes_read is the number of bytes readinto has
\* returned, requests the number of ranged GETs that returned a body, failures
\* the number of failed attempts
ReadStatsExact ==
    rd.st = "open" =>
        /\ rd.bytes_read = Len(rd.out)
        /\ rd.requests = rd.gets
        /\ rd.failures = rd.fails

\* C26, in every step: no counter decreases
ReadStatsGrow ==
    rd.st = "open" =>
        /\ rd'.bytes_read >= rd.bytes_read
        /\ rd'.requests >= rd.requests
        /\ rd'.failures >= rd.failures

\* C26, in every step: a call made at offset = size sends no request
ReadAtEndAsksNothing ==
    (rd.st = "open" /\ rd.pc = "idle" /\ rd.size = rd.offset
        /\ rd'.offset = rd.offset) =>
        /\ rd'.pc = "idle"
        /\ rd'.gets = rd.gets
        /\ rd'.gets416 = rd.gets416
        /\ rd'.requests = rd.requests

\* C26: read statistics.
C26_ReadStatistics ==
    /\ []ReadStatsExact
    /\ [][ReadStatsGrow]_vars
    /\ [][ReadAtEndAsksNothing]_vars

\* C26, witness: two bytes were read over two ranged GETs with one failed
\* attempt between them, and the read at the end of the object has returned 0
C26_Witness ==
    /\ rd.st = "open"
    /\ rd.size = 2
    /\ rd.offset = 2
    /\ rd.requests = 2
    /\ rd.failures = 1
    /\ rd.bytes_read = 2
    /\ rd.pc = "idle"
    /\ rd.ret = 0
    /\ rd.calls = 3

---------------------------------------------------------------------------
(* The token manager in the processes started by fork: a global            *)
(* TokenManager, its _tokens, _expiration and _lock                        *)

\* the processes: the one that imported ops, and the children it forks
TokenProcs == 1..(MaxForks + 1)

\* the k-th token the loader handed to process p, and the process it was
\* handed to
TokenId(p, k) == 10 * p + k
TokenOwner(id) == id \div 10

\* a global TokenManager of a process that has just imported ops; the lock is
\* 0 when free, a thread number when that thread holds it.  calls counts the
\* get_token calls of the process, last is what the last of them did.
NewProcessTokens(st) ==
    [st |-> st, tokens |-> [k \in Keys |-> 0], expiration |-> -1, lock |-> 0,
     loads |-> 0, calls |-> 0, last |-> [cached |-> FALSE, token |-> 0]]

\* get_token: the test that clears the slot of the key
StaleIn(m) == m.expiration = -1 \/ (now + EARLY_EXPIRATION_SECONDS) > m.expiration

\* get_token, thread t of process p: with self._lock
TokenAcquire(p, t) ==
    /\ tm[p].st = "run"
    /\ tm[p].lock = 0
    /\ tm' = [tm EXCEPT ![p].lock = t]
    /\ UNCHANGED <<cloud, obj, sess, lastFin, ws, faults, rd, now, ex, pool, fs, tree>>

\* get_token under the lock: clear the slot when the expiration is near, call
\* the loader when the slot is empty, release the lock, return the token
TokenGet(p, t, key, life) ==
    /\ tm[p].st = "run"
    /\ tm[p].lock = t
    /\ tm[p].calls < MaxGets
    /\ LET m == tm[p]
           cleared == IF StaleIn(m) THEN [m.tokens EXCEPT ![key] = 0] ELSE m.tokens
           load == cleared[key] = 0
           id == TokenId(p, m.loads + 1)
       IN tm' = [tm EXCEPT ![p] =
                   [m EXCEPT !.tokens = IF load THEN [cleared EXCEPT ![key] = id]
                                        ELSE cleared,
                             !.expiration = IF load THEN now + life ELSE @,
                             !.loads = IF load THEN @ + 1 ELSE @,
                             !.lock = 0,
                             !.calls = @ + 1,
                             !.last = [cached |-> ~load,
                                       token |-> IF load THEN id ELSE cleared[key]]]]
    /\ UNCHANGED <<cloud, obj, sess, lastFin, ws, faults, rd, now, ex, pool, fs, tree>>

\* os.fork() by thread t of process p, which is not inside get_token: the
\* child c gets a copy of the parent's memory, the manager with its tokens,
\* its expiration and the state of its lock included; the thread that holds
\* the lock in the parent does not exist in the child (-1)
TokenFork(p, t, c) ==
    /\ tm[p].st = "run"
    /\ tm[p].lock # t
    /\ tm[c].st = "new"
    /\ \A q \in TokenProcs : q < c => tm[q].st # "new"
    /\ tm' = [tm EXCEPT ![c] = [tm[p] EXCEPT
                  !.lock = IF tm[p].lock = 0 THEN 0 ELSE -1,
                  !.loads = 0,
                  !.calls = 0,
                  !.last = [cached |-> FALSE, token |-> 0]]]
    /\ UNCHANGED <<cloud, obj, sess, lastFin, ws, faults, rd, now, ex, pool, fs, tree>>

InitTokenFork ==
    /\ cloud = "gs"
    /\ obj = NoObj
    /\ sess = [w \in Writers |-> <<>>]
    /\ lastFin = 0
    /\ ws = [w \in Writers |-> NewWriter]
    /\ faults = 0
    /\ rd = NewReader
    /\ tm = [p \in TokenProcs |-> NewProcessTokens(IF p = 1 THEN "run" ELSE "new")]
    /\ now = 0
    /\ ex = IdleExec
    /\ pool = IdlePool
    /\ fs = IdleStore
    /\ tree = IdleTree

NextTokenFork ==
    \/ \E p \in TokenProcs, t \in Threads : TokenAcquire(p, t)
    \/ \E p \in TokenProcs, t \in Threads, key \in Keys, life \in Lifetimes :
          TokenGet(p, t, key, life)
    \/ \E p \in TokenProcs, t \in Threads, c \in TokenProcs : TokenFork(p, t, c)
    \/ Tick

SpecTokenFork == InitTokenFork /\ [][NextTokenFork]_vars

\* C27: in a child process the first get_token does not serve a token the
\* parent cached but calls the loader, and the lock of the manager is never
\* held in a child by a thread of the parent.
C27_TokensInvalidatedOnFork ==
    \A p \in TokenProcs \ {1} :
        tm[p].st = "run" =>
            /\ tm[p].lock # -1
            /\ tm[p].calls = 1 =>
                  (~tm[p].last.cached /\ TokenOwner(tm[p].last.token) = p)

\* C27, first half alone: the first get_token of a child calls the loader
C27_FirstGetLoads ==
    \A p \in TokenProcs \ {1} :
        (tm[p].st = "run" /\ tm[p].calls = 1) =>
            (~tm[p].last.cached /\ TokenOwner(tm[p].last.token) = p)

---------------------------------------------------------------------------
(* The names of a directory: listdir, isdir, exists, makedirs over the     *)
(* keys of a bucket, keys with empty components ("d//a") included          *)

\* the keys of a bucket around the directory "d": "d" followed by slashes and
\* letters, in any order
NameKeys == {<<CharD>> \o s : s \in Strings({CharA, Slash}, MaxNameLen)}

IsdirCall(path) ==
    /\ TreeIdle
    /\ tree' = [TreeCall("isdir", path) EXCEPT !.ret = isdir(tree.keys, path)]
    /\ UNCHANGED <<cloud, obj, sess, lastFin, ws, faults, rd, tm, now, ex, pool, fs>>

ExistsCall(path) ==
    /\ TreeIdle
    /\ tree' = [TreeCall("exists", path) EXCEPT !.ret = exists(tree.keys, path)]
    /\ UNCHANGED <<cloud, obj, sess, lastFin, ws, faults, rd, tm, now, ex, pool, fs>>

\* makedirs: an empty object whose key is the path with its slash; the
\* services refuse an object of empty name
Makedirs(path) ==
    /\ TreeIdle
    /\ tree' = IF WithSlash(path) = <<>>
               THEN TreeRaise(TreeCall("makedirs", path), "AssertionError")
               ELSE [TreeCall("makedirs", path) EXCEPT
                        !.keys = @ \cup {WithSlash(path)}]
    /\ UNCHANGED <<cloud, obj, sess, lastFin, ws, faults, rd, tm, now, ex, pool, fs>>

\* listdir does the same on both services
InitNames == InitTree(NameKeys, MaxListed) /\ cloud = "gs"

NextNames == \E path \in DirPaths : ListdirCall(path, 0)

SpecNames == InitNames /\ [][NextNames]_vars

\* the paths isdir, exists and makedirs are called with: "d", "d/", "d/a"
NamePaths == DirPaths \ {<<>>}

NextIsdir ==
    \/ \E path \in NamePaths : IsdirCall(path)
    \/ \E path \in NamePaths : ExistsCall(path)
    \/ \E path \in NamePaths : Makedirs(path)

SpecIsdir == InitNames /\ [][NextIsdir]_vars

\* the name of the first component of s
FirstName(s) == IF HasSlash(s) THEN SubSeq(s, 1, FirstSlash(s) - 1) ELSE s

\* the names of the immediate children of the directory of prefix p
ImmediateChildren(keys, p) ==
    {FirstName(Drop(k, Len(p))) : k \in {h \in keys : IsPrefix(p, h) /\ h # p}}

\* C22: listdir(D) yields the names of the immediate children of D, each with
\* the prefix D/ stripped and without trailing slash, and never an entry for
\* the query prefix itself: no emitted name is empty.
C22_ListdirChildren ==
    (tree.op = "listdir" /\ tree.k = 0 /\ tree.pc = "done" /\ tree.exc = "none") =>
        /\ tree.items = ImmediateChildren(tree.keys, tree.path)
        /\ \A name \in tree.items : name # <<>> /\ ~HasSlash(name)

\* C22 over the keys that have no empty component
C22_ListdirChildrenOfNamedKeys ==
    (\A k \in tree.keys : NoEmptyName(k)) => C22_ListdirChildren

\* some key starts with the path followed by its slash
KeyUnder(keys, path) == \E k \in keys : IsPrefix(WithSlash(path), k)

\* what isdir and exists answer, and the keys after makedirs
IsdirAnswers ==
    tree.pc = "done" =>
        /\ tree.op = "isdir" => tree.ret = KeyUnder(tree.keys, tree.path)
        /\ tree.op = "exists" =>
              tree.ret = (tree.path \in tree.keys \/ KeyUnder(tree.keys, tree.path))
        /\ tree.op = "makedirs" =>
              /\ tree.exc = "none"
              /\ KeyUnder(tree.keys, tree.path)
              /\ tree.keys = tree.before \cup {WithSlash(tree.path)}

\* isdir or exists called on the path makedirs has just returned from
AfterMakedirs ==
    (tree.op = "makedirs" /\ tree'.op \in {"isdir", "exists"}
        /\ WithSlash(tree'.path) = WithSlash(tree.path)) => tree'.ret

\* C23: for a path p with a non-empty key, isdir(p) is true exactly when some
\* key starts with p followed by "/" (p taken with the slash it may already
\* end with), so it is false for a file p and for a proper prefix of the name
\* of a directory; after makedirs(p), isdir(p) and exists(p) are true;
\* exists(p) is isfile(p) or isdir(p).
C23_IsdirByPrefix == []IsdirAnswers /\ [][AfterMakedirs]_vars

\* C23, witness: isdir("d") has answered false in a bucket that holds the
\* file "d" and a directory whose name starts with "d"
C23_Witness ==
    /\ tree.op = "isdir"
    /\ tree.pc = "done"
    /\ tree.path = <<CharD>>
    /\ ~tree.ret
    /\ <<CharD>> \in tree.keys
    /\ \E k \in tree.keys : IsPrefix(<<CharD, CharA>>, k) /\ HasSlash(k)

---------------------------------------------------------------------------
(* walk over the keys of a bucket *)

\* the order of the names in a listing
LexLess(s, t) ==
    \E i \in 1..(Len(s) + 1) :
        /\ \A j \in 1..(i - 1) : j <= Len(t) /\ s[j] = t[j]
        /\ IF i > Len(s) THEN i <= Len(t) ELSE (i <= Len(t) /\ s[i] < t[i])

\* the names of S in the order of the listing
Listed(S) ==
    CHOOSE q \in [1..Cardinality(S) -> S] :
        \A i, j \in 1..Cardinality(S) : i < j => LexLess(q[i], q[j])

\* urljoin drops the empty segments inside a path: a slash after a slash
Collapse(s) ==
    LET keep == {i \in 1..Len(s) : ~(s[i] = Slash /\ i > 1 /\ s[i - 1] = Slash)}
        nth(n) == CHOOSE i \in keep : Cardinality({j \in keep : j <= i}) = n
    IN [n \in 1..Cardinality(keep) |-> s[nth(n)]]

\* _join2 on a remote path and a name: urljoin of the path with its slash and
\* the name, which is the path itself when the name is empty
join(a, b) == IF b = <<>> THEN WithSlash(a) ELSE Collapse(WithSlash(a) \o b)

\* walk: the names of one listing of cur, split into dirnames and filenames
WalkNames(keys, cur) ==
    LET names == {Drop(name, Len(cur)) : name \in get_names(keys, cur, cur)}
    IN [dirnames |-> {strip_slash(n) : n \in {m \in names : EndsWithSlash(m)}},
        filenames |-> {n \in names : ~EndsWithSlash(n)}]

\* the triples walk records: every one while fewer than WalkCap were yielded
WalkCap == 2 + MaxListed * (MaxNameLen + 1)

\* walk(top) up to the loop over the deque
WalkCall(top) ==
    /\ TreeIdle
    /\ tree' = IF isdir(tree.keys, top)
               THEN [TreeCall("walk", top) EXCEPT !.pc = "walking", !.dq = <<top>>]
               ELSE TreeCall("walk", top)
    /\ UNCHANGED <<cloud, obj, sess, lastFin, ws, faults, rd, tm, now, ex, pool, fs>>

\* one turn of the loop: cur = dq.popleft(), its listing, the triple yielded,
\* dq.extend(join(cur, dirname) for dirname in dirnames)
WalkStep ==
    /\ tree.pc = "walking"
    /\ tree.dq # <<>>
    /\ LET cur == WithSlash(Head(tree.dq))
           n == WalkNames(tree.keys, cur)
           dirnames == Listed(n.dirnames)
           triple == [root |-> strip_slash(cur), dirnames |-> n.dirnames,
                      filenames |-> n.filenames]
       IN tree' = [tree EXCEPT
                     !.dq = Tail(@) \o [i \in 1..Len(dirnames) |-> join(cur, dirnames[i])],
                     !.yielded = IF Len(@) < WalkCap THEN Append(@, triple) ELSE @]
    /\ UNCHANGED <<cloud, obj, sess, lastFin, ws, faults, rd, tm, now, ex, pool, fs>>

\* len(dq) = 0
WalkReturn ==
    /\ tree.pc = "walking"
    /\ tree.dq = <<>>
    /\ tree' = [tree EXCEPT !.pc = "done"]
    /\ UNCHANGED <<cloud, obj, sess, lastFin, ws, faults, rd, tm, now, ex, pool, fs>>

NextWalk ==
    \/ \E top \in DirPaths : WalkCall(top)
    \/ WalkStep
    \/ WalkReturn

SpecWalk == InitNames /\ [][NextWalk]_vars

\* the generator is run to its end by the caller
FairSpecWalk == SpecWalk /\ WF_vars(WalkStep) /\ WF_vars(WalkReturn)

\* the directories under the prefix p, p included, each by its prefix
DirsUnder(keys, p) ==
    {p} \cup UNION {{SubSeq(k, 1, i) : i \in {j \in (Len(p) + 1)..Len(k) : k[j] = Slash}} :
                      k \in {h \in keys : IsPrefix(p, h)}}

\* the number of names in a path
Depth(path) == Cardinality({i \in 1..Len(path) : path[i] = Slash})

\* what walk has yielded so far
WalkYields ==
    tree.op = "walk" =>
        LET top == WithSlash(tree.path)
            y == tree.yielded
        IN /\ \A i, j \in 1..Len(y) : i < j =>
                 /\ y[i].root # y[j].root
                 /\ Depth(y[i].root) <= Depth(y[j].root)
           /\ \A i \in 1..Len(y) :
                 /\ WithSlash(y[i].root) \in DirsUnder(tree.keys, top)
                 /\ y[i].dirnames \cup y[i].filenames =
                       ImmediateChildren(tree.keys, WithSlash(y[i].root))
                 /\ \A name \in y[i].dirnames :
                       \E k \in tree.keys :
                          IsPrefix(WithSlash(y[i].root) \o name \o <<Slash>>, k)
                 /\ \A name \in y[i].filenames :
                       WithSlash(y[i].root) \o name \in tree.keys
                 /\ WithSlash(y[i].root) # top =>
                       \E j \in 1..(i - 1) :
                          \E name \in y[j].dirnames :
                             WithSlash(y[j].root) \o name = y[i].root
           /\ tree.pc = "done" =>
                 {WithSlash(y[i].root) : i \in 1..Len(y)} =
                    IF KeyUnder(tree.keys, tree.path) \/ top = <<>>
                    THEN DirsUnder(tree.keys, top) ELSE {}

\* C21: walk(D) on a remote directory terminates and yields one triple
\* (directory, sub-directory names, file names) per directory under D, each
\* directory exactly once, breadth first with every parent before its
\* children, the names being the immediate children of one delimited
\* listing; on a path that is not a directory it yields nothing.
C21_WalkTerminates == []WalkYields /\ (tree.pc = "walking" ~> tree.pc = "done")

\* C21 over the keys that have no empty component
NamedKeys == \A k \in tree.keys : NoEmptyName(k)

C21_WalkOfNamedKeys ==
    /\ [](NamedKeys => WalkYields)
    /\ (NamedKeys /\ tree.pc = "walking") ~> tree.pc = "done"

---------------------------------------------------------------------------
(* glob over the keys of a bucket; a pattern is written without the        *)
(* "gs://bucket/" it starts with                                           *)

Star == 42
Question == 63
BracketOpen == 91
BracketClose == 93

HasStar(pattern) == \E i \in 1..Len(pattern) : pattern[i] = Star

\* the length of the run of stars (stars = TRUE) or of other characters the
\* string starts with
RECURSIVE Run(_, _)
Run(s, stars) ==
    IF s = <<>> \/ ((s[1] = Star) # stars) THEN 0 ELSE 1 + Run(Tail(s), stars)

\* re.split("([*]+)", pattern) without the empty tokens
RECURSIVE Tokens(_)
Tokens(pattern) ==
    IF pattern = <<>> THEN <<>>
    ELSE LET n == Run(pattern, pattern[1] = Star)
         IN <<SubSeq(pattern, 1, n)>> \o Tokens(Drop(pattern, n))

\* the regular expression of the tokens, matched from the start of s, what is
\* left of s being one of ends: "*" is [^/]*, "**" is .*, any other token is
\* itself
RECURSIVE Match(_, _, _)
Match(toks, s, ends) ==
    IF toks = <<>> THEN s \in ends
    ELSE IF toks[1] = <<Star>>
    THEN \E n \in 0..Len(s) :
            ~HasSlash(SubSeq(s, 1, n)) /\ Match(Tail(toks), Drop(s, n), ends)
    ELSE IF toks[1] = <<Star, Star>>
    THEN \E n \in 0..Len(s) : Match(Tail(toks), Drop(s, n), ends)
    ELSE IsPrefix(toks[1], s) /\ Match(Tail(toks), Drop(s, Len(toks[1])), ends)

\* re.compile(regexp + r"/?$").match(filepath)
re_match(pattern, filepath) == Match(Tokens(pattern), filepath, {<<>>, <<Slash>>})

\* pattern.partition("*")[0]
GlobPrefix(pattern) == SubSeq(pattern, 1, Run(pattern, FALSE))

\* the names the loop of glob looks at: every key of the listing and every
\* directory above it, each once (seen)
GlobSeen(keys, prefix) ==
    UNION {{name} \cup {SubSeq(name, 1, i) : i \in {j \in 1..Len(name) : name[j] = Slash}} :
              name \in {k \in keys : IsPrefix(prefix, k)}}

\* glob(pattern)
GlobCall(pattern) ==
    /\ TreeIdle
    /\ LET t == TreeCall("glob", pattern)
           prefix == GlobPrefix(pattern)
           hits == {cur \in GlobSeen(tree.keys, prefix) :
                       LET filepath == join(<<>>, cur)
                       IN /\ re_match(pattern, filepath)
                          /\ ~(filepath = prefix /\ EndsWithSlash(filepath))}
           found == Listed(hits)
       IN tree' =
            IF \E i \in 1..Len(pattern) :
                  pattern[i] \in {Question, BracketOpen, BracketClose}
            THEN TreeRaise(t, "AssertionError")
            ELSE IF HasStar(pattern)
            THEN [t EXCEPT !.yielded =
                     [i \in 1..Len(found) |-> strip_slash(join(<<>>, found[i]))]]
            ELSE IF exists(tree.keys, pattern)
            THEN [t EXCEPT !.yielded = <<strip_slash(pattern)>>]
            ELSE t
    /\ UNCHANGED <<cloud, obj, sess, lastFin, ws, faults, rd, tm, now, ex, pool, fs>>

\* the patterns glob is called with: "d/*", "d/*a", "d/*/a", "d/**", "d*",
\* "d/a" and "d/?"
GlobPatterns ==
    {<<CharD, Slash, Star>>, <<CharD, Slash, Star, CharA>>,
     <<CharD, Slash, Star, Slash, CharA>>, <<CharD, Slash, Star, Star>>,
     <<CharD, Star>>, <<CharD, Slash, CharA>>, <<CharD, Slash, Question>>}

NextGlob == \E pattern \in GlobPatterns : GlobCall(pattern)

SpecGlob == InitNames /\ [][NextGlob]_vars

\* the paths of the bucket, without trailing slash: the keys and the
\* directories above them
Paths(keys) ==
    UNION {{strip_slash(k)} \cup
           {SubSeq(k, 1, i - 1) : i \in {j \in 1..Len(k) : k[j] = Slash}} : k \in keys}

\* C24: glob(pattern) with "*" yields exactly the paths under the literal
\* prefix that match the pattern, "*" matching any run of characters other
\* than "/" and "**" any run of characters, explicit keys and implicit
\* directories alike, each path at most once, without trailing slash, and
\* never the prefix directory itself; a pattern with "?", "[" or "]" is
\* rejected.
C24_GlobExact ==
    (tree.op = "glob" /\ tree.pc = "done") =>
        LET pattern == tree.path
            prefix == GlobPrefix(pattern)
            y == tree.yielded
        IN /\ (\E i \in 1..Len(pattern) : pattern[i] = Question) =>
                 (tree.exc = "AssertionError" /\ y = <<>>)
           /\ (tree.exc = "none" /\ HasStar(pattern)) =>
                 /\ {y[i] : i \in 1..Len(y)} =
                       {p \in Paths(tree.keys) :
                           /\ IsPrefix(prefix, p)
                           /\ WithSlash(p) # prefix
                           /\ Match(Tokens(pattern), p, {<<>>})}
                 /\ \A i, j \in 1..Len(y) : i # j => y[i] # y[j]
                 /\ \A i \in 1..Len(y) : y[i] # <<>> /\ ~EndsWithSlash(y[i])

\* C24 over the buckets where no key has an empty component and no path is
\* both a file and a directory
C24_GlobExactOfPlainKeys ==
    (NamedKeys /\ \A k \in tree.keys : ~KeyUnder(tree.keys \ {k}, k)) => C24_GlobExact

---------------------------------------------------------------------------
(* Further claims about the Azure write stream, checked under SpecWrite;   *)
(* app holds the bytes the append blocks of the stream have added          *)

\* writer w sends an append block in this step
AppendStep(w) == cloud = "as" /\ ws[w].pc = "sending" /\ ws'[w].pc = "props"

\* writer w sends the update of the MD5 property in this step
PropertiesStep(w) ==
    cloud = "as" /\ ws[w].pc = "props" /\ ws'[w].pc # "props" /\ faults' = faults

\* the block sent in an append step
AppendBlock(s) == Slice(s.chunk, s.start, s.start + AZURE_MAX_CHUNK_SIZE)

AppendProtocol ==
    \A w \in Writers :
        /\ AppendStep(w) =>
              /\ AppendPos(ws[w]) = Len(ws[w].app)
              /\ Len(AppendBlock(ws[w])) <= AZURE_MAX_CHUNK_SIZE
              /\ ~ws[w].got412
        /\ PropertiesStep(w) =>
              /\ ~ws[w].got412
              /\ obj'.md5 = MD5(ws[w].app)

\* C31: every append block carries an append position equal to the number
\* of bytes the stream has appended before it and is at most
\* AZURE_MAX_CHUNK_SIZE long; the MD5 property is updated only after an
\* append answered 201, with the MD5 of the bytes the stream has appended so
\* far; after a 412 the stream sends no append and no MD5 update.
C31_AppendProtocol == [][AppendProtocol]_vars

\* C31 for the streams no upload of which has raised, up to their first 412
AppendProtocolUntilFailure ==
    \A w \in Writers :
        (~ws[w].raised /\ ~ws[w].got412) =>
            /\ AppendStep(w) =>
                  /\ AppendPos(ws[w]) = Len(ws[w].app)
                  /\ Len(AppendBlock(ws[w])) <= AZURE_MAX_CHUNK_SIZE
            /\ (PropertiesStep(w) /\ ~ws'[w].got412) => obj'.md5 = MD5(ws[w].app)

C31_AppendProtocolUntilFailure == [][AppendProtocolUntilFailure]_vars

---------------------------------------------------------------------------
(* Further claims about copy, checked under SpecCopy; sent is the          *)
(* rewriteToken of the last rewrite request (0: none)                      *)

\* a rewrite request is sent in this step
RewriteStep == fs.cp.pc = "rewrite" /\ fs'.cp.iter = fs.cp.iter + 1

\* a request after the first carries the token the response before it gave
RewriteCarriesToken == (RewriteStep /\ fs.cp.iter >= 1) => fs'.cp.sent = fs.cp.token

\* the loop is still running only while the requests sent so far, each
\* continuing the one before, could not have copied the whole source
RewriteInTime ==
    (fs.cp.pc = "rewrite" /\ fs.cp.iter >= 1) =>
        fs.cp.iter * RewriteBudget < Len(fs.store["src"].data)

\* C32: in a GCS to GCS copy every rewrite request after the first carries
\* the rewriteToken of the response before it and the loop ends at the first
\* response with done = true, so a copy that needs n continuation calls ends
\* after n + 1 requests.
C32_RewriteContinues == [][RewriteCarriesToken]_vars /\ []RewriteInTime

---------------------------------------------------------------------------
(* The token managers under threads: global_azure_sas_token_manager, whose *)
(* loader asks global_azure_access_token_manager for a token               *)

Managers == {"sas", "access"}

\* the threads that call get_token
Callers == 1..MaxCallers

\* a TokenManager with the tokens its loader returned for each key, and a
\* thread: where it is in get_token, the manager it called (top) and the key,
\* the loader calls made for the key when it called (n0) and when it
\* returned (n1), whether the token was absent or stale when it called
\* (need), the token returned, and whether another thread was in get_token
\* for the same key of the same manager during the call (shared)
NewThreads ==
    [mgr |-> [m \in Managers |->
                [tokens |-> [k \in Keys |-> 0], expiration |-> -1, lock |-> 0,
                 loads |-> 0, loadsOf |-> [k \in Keys |-> <<>>]]],
     th |-> [t \in Callers |->
                [pc |-> "idle", top |-> "none", key |-> "", n0 |-> 0,
                 need |-> FALSE, ret |-> 0, n1 |-> 0, shared |-> FALSE]],
     asked |-> 0]

\* get_token: the test that clears the slot of the key
StaleOf(g) == g.expiration = -1 \/ (now + EARLY_EXPIRATION_SECONDS) > g.expiration

\* self._tokens after the first if of get_token
ClearedOf(g, key) == IF StaleOf(g) THEN [g.tokens EXCEPT ![key] = 0] ELSE g.tokens

\* the manager whose lock a thread at pc waits for or whose loader it runs
Waits(pc) == IF pc = "wait_sas" THEN "sas" ELSE "access"

\* with self._lock that does not wait for the lock
LockFreeAlways(m) == TRUE

\* with self._lock: the lock is free
LockFree(m) == tm.mgr[m].lock = 0

\* the token the k-th loader call of manager m returns
LoadedToken(m, k) == IF m = "sas" THEN 100 + k ELSE k

\* a thread calls get_token(key) of manager m; the threads that are not
\* inside a call are alike, and the first of them is the one that calls
ThreadGet(t, m, key) ==
    /\ tm.th[t].pc \in {"idle", "done", "raised"}
    /\ \A u \in Callers : u < t => tm.th[u].pc \notin {"idle", "done", "raised"}
    /\ tm.asked < MaxAsked
    /\ LET others == {u \in Callers \ {t} :
                          /\ tm.th[u].pc \in {"wait_sas", "wait_acc", "load_acc", "build"}
                          /\ tm.th[u].top = m
                          /\ tm.th[u].key = key}
       IN tm' = [tm EXCEPT
                   !.asked = @ + 1,
                   !.th = [u \in Callers |->
                             IF u = t
                             THEN [pc |-> IF m = "sas" THEN "wait_sas" ELSE "wait_acc",
                                   top |-> m, key |-> key,
                                   n0 |-> Len(tm.mgr[m].loadsOf[key]),
                                   need |-> ClearedOf(tm.mgr[m], key)[key] = 0,
                                   ret |-> 0, n1 |-> 0, shared |-> others # {}]
                             ELSE IF u \in others THEN [tm.th[u] EXCEPT !.shared = TRUE]
                             ELSE tm.th[u]]]
    /\ UNCHANGED <<cloud, obj, sess, lastFin, ws, faults, rd, now, ex, pool, fs, tree>>

\* the thread takes the lock it waits for and runs get_token up to the call
\* of the loader: the key found is returned and the lock released; otherwise
\* the loader starts, and the loader of the SAS manager asks the access
\* manager for a token first
ThreadEnter(t) ==
    /\ tm.th[t].pc \in {"wait_sas", "wait_acc"}
    /\ LockFree(Waits(tm.th[t].pc))
    /\ LET m == Waits(tm.th[t].pc)
           h == tm.th[t]
           g == tm.mgr[m]
           cleared == ClearedOf(g, h.key)
           found == cleared[h.key] # 0
       IN tm' = [tm EXCEPT
                   !.mgr[m] = [g EXCEPT !.tokens = cleared,
                                        !.lock = IF found THEN @ ELSE t],
                   !.th[t] = IF found
                             THEN IF m = h.top
                                  THEN [h EXCEPT !.pc = "done", !.ret = cleared[h.key],
                                                 !.n1 = Len(g.loadsOf[h.key])]
                                  ELSE [h EXCEPT !.pc = "build"]
                             ELSE IF m = "sas" THEN [h EXCEPT !.pc = "wait_acc"]
                             ELSE [h EXCEPT !.pc = "load_acc"]]
    /\ UNCHANGED <<cloud, obj, sess, lastFin, ws, faults, rd, now, ex, pool, fs, tree>>

\* self._tokens[key], self._expiration = self._get_token_fn(key), and the
\* lock released
Loaded(g, m, key, life) ==
    [g EXCEPT !.tokens[key] = LoadedToken(m, g.loads + 1),
              !.expiration = now + life,
              !.loads = @ + 1,
              !.loadsOf[key] = Append(@, LoadedToken(m, g.loads + 1)),
              !.lock = 0]

\* the loader of the access manager returns
AccessLoaded(t, life) ==
    /\ tm.th[t].pc = "load_acc"
    /\ LET h == tm.th[t]
           g == Loaded(tm.mgr["access"], "access", h.key, life)
       IN tm' = [tm EXCEPT
                   !.mgr["access"] = g,
                   !.th[t] = IF h.top = "access"
                             THEN [h EXCEPT !.pc = "done", !.ret = g.tokens[h.key],
                                            !.n1 = Len(g.loadsOf[h.key])]
                             ELSE [h EXCEPT !.pc = "build"]]
    /\ UNCHANGED <<cloud, obj, sess, lastFin, ws, faults, rd, now, ex, pool, fs, tree>>

\* _azure_get_sas_token returns, after its request built with the access token
SasLoaded(t, life) ==
    /\ tm.th[t].pc = "build"
    /\ LET h == tm.th[t]
           g == Loaded(tm.mgr["sas"], "sas", h.key, life)
       IN tm' = [tm EXCEPT !.mgr["sas"] = g,
                           !.th[t] = [h EXCEPT !.pc = "done", !.ret = g.tokens[h.key],
                                                      !.n1 = Len(g.loadsOf[h.key])]]
    /\ UNCHANGED <<cloud, obj, sess, lastFin, ws, faults, rd, now, ex, pool, fs, tree>>

\* a loader that raises and leaves the locks as they are
LoaderRaisedLocked(t) == tm.mgr

\* the managers after the loader of thread t raised: every with self._lock
\* the exception passes through releases its lock
LoaderRaised(t) ==
    [m \in Managers |->
        IF tm.mgr[m].lock = t THEN [tm.mgr[m] EXCEPT !.lock = 0] ELSE tm.mgr[m]]

\* the loader raises (a failed assert on the response, an exception of the
\* credentials code)
LoadRaise(t) ==
    /\ tm.th[t].pc \in {"load_acc", "build"}
    /\ tm' = [tm EXCEPT !.mgr = LoaderRaised(t),
                        !.th[t] = [@ EXCEPT !.pc = "raised"]]
    /\ UNCHANGED <<cloud, obj, sess, lastFin, ws, faults, rd, now, ex, pool, fs, tree>>

\* time passes between the calls: the calls that are in progress together
\* take far less than one tick of TimeStep seconds
ThreadTick ==
    /\ now < MaxWaited * TimeStep
    /\ \A t \in Callers : tm.th[t].pc \notin {"wait_sas", "wait_acc", "load_acc", "build"}
    /\ now' = now + TimeStep
    /\ UNCHANGED <<cloud, obj, sess, lastFin, ws, faults, rd, tm, ex, pool, fs, tree>>

InitThreads ==
    /\ cloud = "as"
    /\ obj = NoObj
    /\ sess = [w \in Writers |-> <<>>]
    /\ lastFin = 0
    /\ ws = [w \in Writers |-> NewWriter]
    /\ faults = 0
    /\ rd = NewReader
    /\ tm = NewThreads
    /\ now = 0
    /\ ex = IdleExec
    /\ pool = IdlePool
    /\ fs = IdleStore
    /\ tree = IdleTree

NextThreads ==
    \/ \E t \in Callers, m \in Managers, key \in Keys : ThreadGet(t, m, key)
    \/ \E t \in Callers : ThreadEnter(t)
    \/ \E t \in Callers, life \in Lifetimes : AccessLoaded(t, life)
    \/ \E t \in Callers, life \in Lifetimes : SasLoaded(t, life)
    \/ \E t \in Callers : LoadRaise(t)
    \/ ThreadTick

SpecThreads == InitThreads /\ [][NextThreads]_vars

\* the same threads, fewer of them calling, for the claims about one failure
NextFailures ==
    \/ \E t \in 1..MaxFailing, m \in Managers, key \in Keys :
          tm.asked < MaxTried /\ ThreadGet(t, m, key)
    \/ \E t \in Callers : ThreadEnter(t)
    \/ \E t \in Callers, life \in Lifetimes : AccessLoaded(t, life)
    \/ \E t \in Callers, life \in Lifetimes : SasLoaded(t, life)
    \/ \E t \in Callers : LoadRaise(t)
    \/ ThreadTick

SpecFailures == InitThreads /\ [][NextFailures]_vars

\* the loader of manager m is in progress in thread t
LoaderRunning(t, m) ==
    IF m = "access" THEN tm.th[t].pc = "load_acc"
    ELSE tm.th[t].top = "sas" /\ tm.th[t].pc \in {"wait_acc", "load_acc", "build"}

OneLoader ==
    \A m \in Managers : Cardinality({t \in Callers : LoaderRunning(t, m)}) <= 1

\* a call made while the token was absent or stale, and shared with another
\* thread, has returned: one loader
\* call was made for the key since, and the token returned is the one it gave
LoadedOnce ==
    \A t \in Callers :
        (tm.th[t].pc = "done" /\ tm.th[t].need /\ tm.th[t].shared) =>
            /\ tm.th[t].n1 = tm.th[t].n0 + 1
            /\ tm.th[t].ret = tm.mgr[tm.th[t].top].loadsOf[tm.th[t].key][tm.th[t].n1]

InGetToken(t) == tm.th[t].pc \in {"wait_sas", "wait_acc", "load_acc", "build"}

\* while a thread is in get_token some thread can go on: it runs a loader, or
\* the lock it waits for is free
NoDeadlock ==
    (\E t \in Callers : InGetToken(t)) =>
        \E t \in Callers :
            \/ tm.th[t].pc \in {"load_acc", "build"}
            \/ /\ tm.th[t].pc \in {"wait_sas", "wait_acc"}
               /\ tm.mgr[Waits(tm.th[t].pc)].lock = 0

\* C33: for one token manager at most one loader call is in progress at any
\* time; when several threads call get_token(key) while the token of the key
\* is absent or stale the loader is called once and every caller returns the
\* token it gave; the access-token manager used by the loader of the SAS
\* manager never leaves a thread waiting for ever.
C33_RefreshIsSerialized == OneLoader /\ LoadedOnce /\ NoDeadlock

\* C33, witness: both threads asked the SAS manager for the same absent key,
\* one while the other was in get_token, and both have returned the token of
\* the one loader call, which used the access manager
C33_Witness ==
    /\ \A t \in {1, 2} :
          /\ tm.th[t].pc = "done"
          /\ tm.th[t].top = "sas"
          /\ tm.th[t].need
          /\ tm.th[t].n0 = 0
          /\ tm.th[t].key = "a"
    /\ tm.th[1].ret = tm.th[2].ret
    /\ tm.mgr["sas"].loads = 1
    /\ tm.mgr["access"].loads = 1

\* the loader raises in thread t in this step
RaiseStep(t) == tm.th[t].pc # "raised" /\ tm'.th[t].pc = "raised"

LoaderFailure ==
    \A t \in Callers :
        RaiseStep(t) =>
            /\ \A m \in Managers : tm'.mgr[m].lock # t
            /\ tm'.mgr[tm.th[t].top].tokens[tm.th[t].key] = 0
            /\ ClearedOf(tm.mgr[tm.th[t].top], tm.th[t].key)'[tm.th[t].key] = 0
            /\ \A m \in Managers : \A k \in Keys \ {tm.th[t].key} :
                  tm'.mgr[m].tokens[k] = tm.mgr[m].tokens[k]

\* a thread that takes the lock of a manager which holds no token for its
\* key, as after a failure of the loader, starts the loader
NoNegativeCaching ==
    \A t \in Callers :
        (/\ tm.th[t].pc \in {"wait_sas", "wait_acc"}
         /\ tm'.th[t].pc # tm.th[t].pc
         /\ tm.mgr[Waits(tm.th[t].pc)].tokens[tm.th[t].key] = 0)
        => /\ tm'.mgr[Waits(tm.th[t].pc)].lock = t
           /\ tm'.th[t].pc = IF tm.th[t].pc = "wait_sas" THEN "wait_acc" ELSE "load_acc"

\* C34: when the loader raises during get_token(key) the error reaches the
\* caller, no token is cached for key, the lock is released and the next
\* get_token(key) calls the loader again; the tokens of the other keys stay.
C34_LoaderFailure == [][LoaderFailure /\ NoNegativeCaching]_vars

\* C34, witness: the loader raised in thread 1 for a key, the token of the
\* other key is still cached, and thread 2, which asked for the key of the
\* failure afterwards, has got a token from a new loader call
C34_Witness ==
    /\ tm.th[1].pc = "raised"
    /\ tm.th[1].top = "access"
    /\ tm.th[1].key = "a"
    /\ tm.mgr["access"].tokens["b"] # 0
    /\ tm.mgr["access"].lock = 0
    /\ tm.th[2].pc = "done"
    /\ tm.th[2].top = "access"
    /\ tm.th[2].key = "a"
    /\ tm.th[2].need
    /\ tm.th[2].ret = tm.mgr["access"].tokens["a"]


---------------------------------------------------------------------------
(* The retry loop of readinto under faults without end.  The counters of   *)
(* the stream count up to MaxRetried and stay there: the loop tests the    *)
(* attempt number against LogFromAttempt only                              *)

\* a counter that is no longer told apart above MaxRetried
Counted(n) == Min(n + 1, MaxRetried)

\* _StreamingReadFile.__init__ on an object of size bytes; f is "none" for
\* self._f = None, "live" for an open body, "dead" for a body whose read raised
NewRetry(size) ==
    [pc |-> "idle", size |-> size, offset |-> 0, f |-> "none", attempt |-> 0,
     backoff |-> BackoffInitial, slept |-> 0, requests |-> 0, failures |-> 0,
     bytes_read |-> 0, logged |-> FALSE, ret |-> -1, calls |-> 0]

\* readinto, entry
RetryReadinto ==
    /\ rd.pc = "idle"
    /\ rd.calls < MaxCalls
    /\ rd' = IF rd.size = rd.offset
             THEN [rd EXCEPT !.ret = 0, !.calls = @ + 1]
             ELSE [rd EXCEPT !.pc = "loop", !.attempt = 0, !.calls = @ + 1,
                             !.backoff = BackoffInitial, !.logged = FALSE]
    /\ UNCHANGED <<cloud, obj, sess, lastFin, ws, faults, tm, now, ex, pool, fs, tree>>

\* if self._f is None: self._f = self._get_file(self._offset), a request
Opened(r) ==
    IF r.f = "none" THEN [r EXCEPT !.f = "live", !.requests = Counted(@)] ELSE r

\* the end of a failed attempt: failures, the log from the 4th attempt on,
\* the sleep, and the next attempt number and delay of the generator
Retried(r) ==
    [r EXCEPT !.failures = Counted(@),
              !.logged = @ \/ r.attempt >= LogFromAttempt,
              !.slept = r.backoff,
              !.attempt = Counted(@),
              !.backoff = NextBackoff(@)]

\* an attempt that reads n bytes from a live body
RetryRead(n) ==
    /\ rd.pc = "loop"
    /\ rd.f # "dead"
    /\ n <= rd.size - rd.offset
    /\ rd' = [Opened(rd) EXCEPT !.offset = @ + n, !.bytes_read = @ + n,
                                !.ret = n, !.pc = "idle"]
    /\ UNCHANGED <<cloud, obj, sess, lastFin, ws, faults, tm, now, ex, pool, fs, tree>>

\* an attempt in which the body returns no data: closed and dropped
RetryNoData ==
    /\ rd.pc = "loop"
    /\ rd' = Retried([Opened(rd) EXCEPT !.f = "none"])
    /\ UNCHANGED <<cloud, obj, sess, lastFin, ws, faults, tm, now, ex, pool, fs, tree>>

\* an attempt in which the body raises ReadTimeoutError or ProtocolError:
\* self._f is kept
RetryRaises ==
    /\ rd.pc = "loop"
    /\ rd' = Retried([Opened(rd) EXCEPT !.f = "dead"])
    /\ UNCHANGED <<cloud, obj, sess, lastFin, ws, faults, tm, now, ex, pool, fs, tree>>

InitRetry ==
    /\ cloud = "gs"
    /\ obj = NoObj
    /\ sess = [w \in Writers |-> <<>>]
    /\ lastFin = 0
    /\ ws = [w \in Writers |-> NewWriter]
    /\ faults = 0
    /\ rd \in {NewRetry(size) : size \in 0..MaxLen}
    /\ tm = IdleTokens
    /\ now = 0
    /\ ex = IdleExec
    /\ pool = IdlePool
    /\ fs = IdleStore
    /\ tree = IdleTree

NextRetry ==
    \/ RetryReadinto
    \/ \E n \in 1..MaxLen : RetryRead(n)
    \/ RetryNoData
    \/ RetryRaises

SpecRetry == InitRetry /\ [][NextRetry]_vars

\* the loop of readinto goes on: a call that has begun an attempt ends it
FairSpecRetry == SpecRetry /\ WF_vars(NextRetry)

\* C35: a streaming read retries transient failures with the backoff ladder
\* of the executor and gives up after a finite number of attempts: readinto
\* that has entered its loop leaves it, also when the body fails every time.
C35_ReadGivesUp == (rd.pc = "loop") ~> (rd.pc = "idle")

\* the delays of the failed attempts of one readinto follow the ladder: each
\* is the one the generator yields after the one before
RetryLadder ==
    (rd.pc = "loop" /\ rd'.pc = "loop" /\ rd' # rd) =>
        /\ rd'.slept = rd.backoff
        /\ rd'.backoff = NextBackoff(rd.backoff)
        /\ rd'.backoff <= BackoffMaximum

C35_RetriesWithBackoff == [][RetryLadder]_vars


---------------------------------------------------------------------------
(* The queues of a sharded listdir: prefixes, items, the workers of the    *)
(* pool and the loop of listdir that takes the items                       *)

Workers == 1..MaxWorkers

\* the values of shard_prefix_length: without and with tasks of exact names
ShardLengths == {1, 2}

\* the keys of the bucket: "d/a", "d/b", "d/ab" and "d/a/b"
ShardKeys ==
    {<<CharD, Slash, CharA>>, <<CharD, Slash, CharB>>,
     <<CharD, Slash, CharA, CharB>>, <<CharD, Slash, CharA, Slash, CharB>>}

\* the tasks in the order listdir puts them on prefixes: by length, and in
\* the order of itertools.product for one length
RECURSIVE TaskQueue(_, _)
TaskQueue(repeat, k) ==
    IF repeat > k THEN <<>>
    ELSE LET q == Listed([1..repeat -> ShardChars])
         IN [i \in 1..Len(q) |-> [prefix |-> q[i], exact |-> repeat # k]]
            \o TaskQueue(repeat + 1, k)

\* tasks_enqueued short of one task
TasksEnqueuedShort(k) == Len(TaskQueue(1, k)) - 1

\* tasks_enqueued after the loops that fill prefixes
TasksEnqueued(k) == Len(TaskQueue(1, k))

\* a worker between two tasks
IdleWorker == [pc |-> "get", task |-> 0, todo |-> <<>>]

\* listdir(path, shard_prefix_length) not yet called.  all holds the tasks
\* enqueued, prefixes the numbers of those still on the queue, items the
\* entries on the queue of items, each with the number of its task.  About
\* each task: emitted holds the items put for it, sent counts its None
\* entries, late tells that an item was put after its None.  yielded holds
\* what listdir has yielded, nyielded counts it.
NewShards(keys) ==
    [keys |-> keys, pc |-> "idle", path |-> <<>>, k |-> 0, exc |-> "none",
     all |-> <<>>, prefixes |-> <<>>, wk |-> [w \in Workers |-> IdleWorker],
     items |-> <<>>, emitted |-> <<>>, sent |-> <<>>, late |-> <<>>,
     tasks_enqueued |-> 0, tasks_done |-> 0, yielded |-> {}, nyielded |-> 0]

\* listdir up to the with statement that starts the pool
ShardedCall(path, k) ==
    /\ tree.pc = "idle"
    /\ LET p == WithSlash(path)
           l == ListdirOutcome(tree.keys, p)
           n == Len(TaskQueue(1, k))
       IN tree' =
            IF l.exc # "none" THEN [tree EXCEPT !.pc = "done", !.exc = l.exc]
            ELSE [tree EXCEPT !.pc = "consume", !.path = p, !.k = k,
                              !.all = TaskQueue(1, k),
                              !.prefixes = [i \in 1..n |-> i],
                              !.emitted = [i \in 1..n |-> <<>>],
                              !.sent = [i \in 1..n |-> 0],
                              !.late = [i \in 1..n |-> FALSE],
                              !.tasks_enqueued = TasksEnqueued(k)]
    /\ UNCHANGED <<cloud, obj, sess, lastFin, ws, faults, rd, tm, now, ex, pool, fs>>

\* the worker takes the next task from prefixes and asks the store; the
\* workers that wait on prefixes are alike, and the first of them gets the task
WorkerGet(w) ==
    /\ tree.pc = "consume"
    /\ tree.wk[w].pc = "get"
    /\ \A v \in Workers : v < w => tree.wk[v].pc # "get"
    /\ tree.prefixes # <<>>
    /\ LET i == Head(tree.prefixes)
       IN tree' = [tree EXCEPT
                     !.prefixes = Tail(@),
                     !.wk[w] = [pc |-> "put", task |-> i,
                                todo |-> Listed(ShardItems(tree.keys, tree.path,
                                                           tree.all[i]))]]
    /\ UNCHANGED <<cloud, obj, sess, lastFin, ws, faults, rd, tm, now, ex, pool, fs>>

\* the worker puts on items the next item of its task, or None after the last
WorkerPut(w) ==
    /\ tree.pc = "consume"
    /\ tree.wk[w].pc = "put"
    /\ LET h == tree.wk[w]
       IN tree' =
            IF h.todo # <<>>
            THEN [tree EXCEPT
                    !.items = Append(@, [task |-> h.task, none |-> FALSE,
                                         item |-> Head(h.todo)]),
                    !.emitted[h.task] = Append(@, Head(h.todo)),
                    !.late[h.task] = @ \/ tree.sent[h.task] > 0,
                    !.wk[w].todo = Tail(@)]
            ELSE [tree EXCEPT
                    !.items = Append(@, [task |-> h.task, none |-> TRUE,
                                         item |-> <<>>]),
                    !.sent[h.task] = @ + 1,
                    !.wk[w] = IdleWorker]
    /\ UNCHANGED <<cloud, obj, sess, lastFin, ws, faults, rd, tm, now, ex, pool, fs>>

\* one turn of the loop of listdir: items.get(), count a None, yield an item
ShardedTake ==
    /\ tree.pc = "consume"
    /\ tree.tasks_done < tree.tasks_enqueued
    /\ tree.items # <<>>
    /\ LET item == Head(tree.items)
       IN tree' = IF item.none
                  THEN [tree EXCEPT !.items = Tail(@), !.tasks_done = @ + 1]
                  ELSE [tree EXCEPT !.items = Tail(@),
                                    !.yielded = @ \cup {item.item},
                                    !.nyielded = @ + 1]
    /\ UNCHANGED <<cloud, obj, sess, lastFin, ws, faults, rd, tm, now, ex, pool, fs>>

\* the loop ends, the pool is terminated
ShardedReturn ==
    /\ tree.pc = "consume"
    /\ ~(tree.tasks_done < tree.tasks_enqueued)
    /\ tree' = [tree EXCEPT !.pc = "done"]
    /\ UNCHANGED <<cloud, obj, sess, lastFin, ws, faults, rd, tm, now, ex, pool, fs>>

InitShards ==
    /\ cloud = "gs"
    /\ obj = NoObj
    /\ sess = [w \in Writers |-> <<>>]
    /\ lastFin = 0
    /\ ws = [w \in Writers |-> NewWriter]
    /\ faults = 0
    /\ rd = NewReader
    /\ tm = IdleTokens
    /\ now = 0
    /\ ex = IdleExec
    /\ pool = IdlePool
    /\ fs = IdleStore
    /\ \E keys \in SetsUpTo(ShardKeys, MaxListed) : tree = NewShards(keys)

NextShards ==
    \/ \E k \in ShardLengths : ShardedCall(<<CharD>>, k)
    \/ \E w \in Workers : WorkerGet(w)
    \/ \E w \in Workers : WorkerPut(w)
    \/ ShardedTake
    \/ ShardedReturn

SpecShards == InitShards /\ [][NextShards]_vars

\* the items of task i
ItemsOfTask(i) == Listed(ShardItems(tree.keys, tree.path, tree.all[i]))

\* the entries of the queue of items that are items, and those that are None
Waiting(none) == {p \in 1..Len(tree.items) : tree.items[p].none = none}

\* a task has at most one None on items, and it was put after all its items
OneSentinelAfterItems ==
    \A i \in 1..Len(tree.all) :
        /\ tree.sent[i] <= 1
        /\ ~tree.late[i]
        /\ tree.sent[i] = 1 => tree.emitted[i] = ItemsOfTask(i)

\* listdir has yielded the items that were put and are no longer on the
\* queue, and has counted the None entries that are no longer on it
YieldsWhatItTakes ==
    (tree.pc \in {"consume", "done"} /\ tree.exc = "none") =>
        /\ tree.yielded \cup {tree.items[p].item : p \in Waiting(FALSE)}
             = UNION {{tree.emitted[i][j] : j \in 1..Len(tree.emitted[i])} :
                         i \in 1..Len(tree.all)}
        /\ tree.nyielded = Cardinality(tree.yielded)
        /\ tree.tasks_done + Cardinality(Waiting(TRUE))
             = Cardinality({i \in 1..Len(tree.all) : tree.sent[i] = 1})

\* listdir stops when it has counted as many None entries as tasks were
\* enqueued, and not before: every task has put its None and all its items
\* were yielded
StopsWhenAllDone ==
    (tree.pc = "done" /\ tree.exc = "none") =>
        /\ tree.tasks_done = Len(tree.all)
        /\ tree.prefixes = <<>>
        /\ \A w \in Workers : tree.wk[w] = IdleWorker
        /\ \A i \in 1..Len(tree.all) : tree.sent[i] = 1
        /\ tree.items = <<>>
        /\ tree.yielded = UNION {ShardItems(tree.keys, tree.path, tree.all[i]) :
                                    i \in 1..Len(tree.all)}

\* until listdir has returned, a worker or the loop of listdir can take a step
CanGoOn ==
    tree.pc = "consume" =>
        \/ ~(tree.tasks_done < tree.tasks_enqueued)
        \/ tree.items # <<>>
        \/ \E w \in Workers : tree.wk[w].pc = "put"
        \/ tree.prefixes # <<>> /\ \E w \in Workers : tree.wk[w].pc = "get"

\* the work a worker has left: two for every entry it has still to put
RECURSIVE WorkOf(_)
WorkOf(w) ==
    IF w = 0 THEN 0
    ELSE WorkOf(w - 1)
         + (IF tree.wk[w].pc = "put" THEN 2 * (Len(tree.wk[w].todo) + 1) ELSE 0)

\* the steps that are left at most before listdir has returned; every step
\* of a worker and of the loop makes it smaller, so the steps come to an end
WorkLeft ==
    LET weight == 2 * Cardinality(tree.keys) + 3
        longest == CHOOSE k \in ShardLengths : \A n \in ShardLengths : n <= k
    IN IF tree.pc = "done" THEN 0
       ELSE IF tree.pc = "idle" THEN 2 + weight * Len(TaskQueue(1, longest))
       ELSE 1 + weight * Len(tree.prefixes) + WorkOf(MaxWorkers) + Len(tree.items)

C36_Ended ==
    tree.pc = "done" /\ tree.exc = "none" /\ tree.nyielded >= 2


---------------------------------------------------------------------------
(* A request whose token the server rejects: _execute_google_api_request   *)
(* and _execute_azure_api_request, build_req with the token of the manager *)

Unauthorized == 401

\* the manager and the server before the first request: token 0 for no token
\* cached, revoked the tokens the server rejects
NewAuth == [token |-> 0, loads |-> 0, revoked |-> {}]

\* the executor not called; sent is the token of the last request, rejected
\* counts the 401 answers of the call
IdleAuth ==
    [pc |-> "idle", attempt |-> 0, backoff |-> BackoffInitial, sent |-> 0,
     status |-> 0, rejected |-> 0, calls |-> 0]

\* _execute_request is called
AuthCall ==
    /\ ex.pc \in {"idle", "returned"}
    /\ ex.calls < MaxCalls
    /\ ex' = [ex EXCEPT !.pc = "run", !.attempt = 0, !.backoff = BackoffInitial,
                        !.sent = 0, !.status = 0, !.rejected = 0, !.calls = @ + 1]
    /\ UNCHANGED <<cloud, obj, sess, lastFin, ws, faults, rd, tm, now, pool, fs, tree>>

\* get_token of build_req within the lifetime of the token: the cached token,
\* or a new one from the loader
Authorized(g) ==
    IF g.token = 0 THEN [g EXCEPT !.token = g.loads + 1, !.loads = @ + 1] ELSE g

\* one turn of the loop of _execute_request: build_req, the request, and
\* the answer: 401 for a token the server rejects, else status; a status of
\* retry_statuses is slept on, every other status is returned
AuthRequest(status) ==
    /\ ex.pc = "run"
    /\ LET g == Authorized(tm)
           answer == IF g.token \in g.revoked THEN Unauthorized ELSE status
       IN /\ tm' = g
          /\ IF answer \in RetryStatuses
             THEN /\ ex.attempt < MaxAttempts
                  /\ ex' = [ex EXCEPT !.sent = g.token, !.status = answer,
                                      !.attempt = @ + 1,
                                      !.backoff = NextBackoff(@)]
             ELSE ex' = [ex EXCEPT !.sent = g.token, !.status = answer,
                                   !.rejected = IF answer = Unauthorized
                                                THEN @ + 1 ELSE @,
                                   !.pc = "returned"]
    /\ UNCHANGED <<cloud, obj, sess, lastFin, ws, faults, rd, now, pool, fs, tree>>

\* the server stops accepting the token the manager holds
Revoke ==
    /\ tm.token # 0
    /\ tm.token \notin tm.revoked
    /\ Cardinality(tm.revoked) < MaxRevoked
    /\ tm' = [tm EXCEPT !.revoked = @ \cup {tm.token}]
    /\ UNCHANGED <<cloud, obj, sess, lastFin, ws, faults, rd, now, ex, pool, fs, tree>>

InitAuth ==
    /\ cloud \in {"gs", "as"}
    /\ obj = NoObj
    /\ sess = [w \in Writers |-> <<>>]
    /\ lastFin = 0
    /\ ws = [w \in Writers |-> NewWriter]
    /\ faults = 0
    /\ rd = NewReader
    /\ tm = NewAuth
    /\ now = 0
    /\ ex = IdleAuth
    /\ pool = IdlePool
    /\ fs = IdleStore
    /\ tree = IdleTree

NextAuth ==
    \/ AuthCall
    \/ \E status \in {200, 404, 503} : AuthRequest(status)
    \/ Revoke

SpecAuth == InitAuth /\ [][NextAuth]_vars

\* a step in which a request is answered 401
Rejected == ex.pc = "run" /\ ex' # ex /\ ex'.status = Unauthorized

\* C37: when a request is rejected for an authentication failure the token
\* is loaded again, once, and the request is attempted again with the new
\* token; when that one is rejected too the error reaches the caller.
C37_ReauthenticatesOnce ==
    [][Rejected =>
         IF ex.rejected = 0
         THEN /\ ex'.pc = "run"
              /\ tm'.token = 0
         ELSE ex'.pc = "returned"]_vars

\* a request is sent with the token the manager holds, and an answer that
\* is not of retry_statuses, 401 included, is returned to the caller as it is
AnswerReturned ==
    (ex.pc = "run" /\ ex' # ex) =>
        /\ ex'.sent = Authorized(tm).token
        /\ ex'.status \notin RetryStatuses => ex'.pc = "returned"

C37_AnswerReturned == [][AnswerReturned]_vars


---------------------------------------------------------------------------
(* seek on a read stream, checked on the read stream without replacements  *)
(* of the object                                                           *)

NextSeek ==
    \/ ReadOpen
    \/ \E n \in 1..MaxBuf : Readinto(n)
    \/ ReadAttempt
    \/ ReadNoData
    \/ \E offset \in -1..1, whence \in 0..2 : Seek(offset, whence)

SpecSeek == InitRead /\ [][NextSeek]_vars

\* seek returns self._offset as it is after the call: the offset given,
\* the old offset plus it, or the size plus it
SeekReturns ==
    \A offset \in -1..1, whence \in 0..2 :
        Seek(offset, whence) =>
            rd'.offset = CASE whence = 0 -> offset
                           [] whence = 1 -> rd.offset + offset
                           [] whence = 2 -> rd.size + offset

\* seek sends no request; it keeps the body when the offset stays, and
\* drops it when the offset changes
SeekKeepsOrDrops ==
    \A offset \in -1..1, whence \in 0..2 :
        Seek(offset, whence) =>
            /\ rd'.gets = rd.gets /\ rd'.gets416 = rd.gets416
            /\ rd'.requests = rd.requests
            /\ rd'.f = IF rd'.offset = rd.offset THEN rd.f ELSE NoBody

\* a read that finds the body kept goes on with it, without a request
KeptBodyServes ==
    (ReadAttempt /\ rd.f.open) => (rd'.gets = rd.gets /\ rd'.gets416 = rd.gets416)

\* the first attempt of a read that finds no body sends one ranged GET that
\* starts at the offset: the bytes it returns are those of the object from
\* the offset on
OneGetAtOffset ==
    (ReadAttempt /\ ~rd.f.open /\ rd.attempt = 0) =>
        /\ rd'.gets + rd'.gets416 = rd.gets + rd.gets416 + 1
        /\ rd'.pc = "idle" =>
              /\ rd'.ret >= 0
              /\ rd'.out = rd.out \o SubSeq(obj.data, rd.offset + 1, rd.offset + rd'.ret)

\* a read on a stream whose body a seek has dropped begins the loop that
\* sends the GET
ReadAsksAfterSeek ==
    ((\E n \in 1..MaxBuf : Readinto(n)) /\ ~rd.f.open /\ rd.sought) => rd'.pc = "loop"

\* a read at offset = size returns 0 and sends no request, whatever seek did
\* with the body
ReadAtSizeAsksNothing ==
    ((\E n \in 1..MaxBuf : Readinto(n)) /\ rd.offset = rd.size) =>
        (rd'.pc = "idle" /\ rd'.ret = 0 /\ rd'.gets = rd.gets /\ rd'.f = rd.f)

\* C38 as claimed: seek returns the new offset; a seek to the current offset
\* keeps the body and sends nothing; a seek to another offset drops the body,
\* and the next read sends exactly one ranged GET that starts at the new
\* offset.
C38_SeekThenOneGet ==
    [][SeekReturns /\ SeekKeepsOrDrops /\ KeptBodyServes
       /\ ReadAsksAfterSeek /\ OneGetAtOffset]_vars

\* C38 as amended: the same, where the next read sends its one GET only when
\* the new offset is not the size recorded at open and not below 0; at
\* offset = size the read returns 0 without a request.
C38_SeekThenOneGetBelowSize ==
    [][/\ SeekReturns
       /\ SeekKeepsOrDrops
       /\ KeptBodyServes
       /\ rd.offset # rd.size => ReadAsksAfterSeek
       /\ ReadAtSizeAsksNothing
       /\ rd.offset >= 0 => OneGetAtOffset]_vars

\* C38, witness: after a read of one byte a seek back to the start has
\* dropped the body, and the read after it has sent the second GET and
\* returned the first byte again
C38_Witness ==
    /\ rd.st = "open"
    /\ rd.pc = "idle"
    /\ rd.sought
    /\ rd.calls = 3
    /\ rd.gets = 2
    /\ rd.fails = 0
    /\ rd.offset = 1
    /\ Len(rd.out) = 2
    /\ rd.out[1] = rd.out[2]


---------------------------------------------------------------------------
(* The finalizing chunk of a write stream, checked under SpecWrite *)

\* the last chunk the stream has handed to _upload_chunk was the finalizing
\* one, and no upload is in progress
FinalizeSent(w) == ws[w].st # "new" /\ ws[w].pc = "idle" /\ ws[w].fin

\* C39: once the finalizing chunk of a write stream has been sent the stream
\* sends no further chunk, whether the upload of that chunk succeeded or
\* failed and whatever is called on the stream afterwards: at most one
\* finalize upload per stream.
C39_OneFinalize ==
    [][\A w \in Writers : FinalizeSent(w) => ws'[w].pc = "idle"]_vars

\* the same for the streams whose finalizing upload has succeeded: a closed
\* stream sends nothing
C39_ClosedSendsNothing ==
    [][\A w \in Writers : ws[w].st = "closed" => ws'[w].pc = "idle"]_vars


---------------------------------------------------------------------------
(* The streamed copy when a read of the source or a write of a block       *)
(* raises inside the with statement                                        *)

\* src_f.read or dst_f.write raises in the loop: the with statement closes
\* dst_f on the way out, and the close of a GCS write stream sends the
\* finalizing chunk, which completes the object with what the session holds
\* unless that upload fails too; a local file and an Azure blob hold what
\* was written.  Then the exception leaves copy.
CopyFails(finalized) ==
    /\ fs.cp.pc = "loop"
    /\ fs' = [fs EXCEPT
                 !.store["dst"] = IF fs.scheme["dst"] = "gs" /\ finalized
                                  THEN File(fs.cp.sess, B64Digest(fs.cp.sess),
                                            fs.clock + 1)
                                  ELSE @,
                 !.clock = @ + 1,
                 !.cp = CopyRaise(@, "IOError")]
    /\ UNCHANGED <<cloud, obj, sess, lastFin, ws, faults, rd, tm, now, ex, pool, tree>>

NextStreamed ==
    \/ NextCopy
    \/ \E finalized \in BOOLEAN : CopyFails(finalized)

SpecStreamed == InitCopy /\ [][NextStreamed]_vars

\* the copy was streamed to a remote destination and has failed in its loop
StreamedCopyFailed ==
    /\ fs.cp.pc = "done"
    /\ fs.cp.result = "IOError"
    /\ fs.scheme["dst"] \in {"gs", "as"}

\* C40: when a streamed copy fails while it reads the source or writes a
\* chunk, the destination is not finalized with a partial copy: a remote
\* destination object is completed only after every byte of the source was
\* uploaded.
C40_NoPartialCopy ==
    StreamedCopyFailed =>
        \/ fs.store["dst"] = fs.cp.before
        \/ fs.store["dst"].data = fs.store["src"].data

\* a streamed copy that has ended without an exception has left the whole
\* content of the source at the destination
C40_CompleteWhenOk ==
    (fs.cp.pc = "done" /\ fs.cp.result = "ok") =>
        fs.store["dst"].data = fs.store["src"].data

====
